---------------------------- MODULE Spec2Model ----------------------------
(***************************************************************************)
(* A model of the floor-3D compositing core: mask building and morphology  *)
(* (src/src/models.ts, src/src/lib/masks.ts), plane fitting and the        *)
(* occlusion test (src/src/models.ts) and the fragment shader's final      *)
(* blend (src/unnamed/part_003, src/src/shaders/floor.frag.glsl).          *)
(*                                                                         *)
(* Conventions.  A grid of w*h pixels is a function on 0..w*h-1, row-major *)
(* (index y*w+x), as the typed arrays of the source.  A Uint8Array mask    *)
(* holds 0 or 255; a Float32Array mask holds 0 or 1 (1.0).  Floating-point *)
(* quantities are modelled by exact integers or exact rationals written    *)
(* as integer cross-multiplications; the places where IEEE arithmetic      *)
(* produces NaN or an infinity are modelled explicitly.                    *)
(***************************************************************************)
EXTENDS Integers, Sequences, FiniteSets, TLC

VARIABLES
    gw, gh,          \* width and height of the image grid
    repr,            \* morphology: "Uint8Array" (0/255) or "Float32Array" (0/1) masks
    orig,            \* morphology: the mask the first operation was applied to
    mask,            \* morphology: the mask an operation is applied to / has produced
    prev,            \* morphology: the argument of the last operation applied
    op,              \* morphology: name of the last operation applied ("none" at start)
    steps,           \* morphology: number of operations applied so far
    segs,            \* segmentation list handed to a mask builder
    segOut,          \* result of the mask builder that ran ([fn |-> "none"] at start)
    depth,           \* depth data (Float32Array), one value per pixel
    pc,              \* createOcclusionMask: position in the function
    floorMask,       \* createOcclusionMask: processedFloorMask
    furnitureMask,   \* createOcclusionMask: furnitureMask
    points,          \* estimateFloorPlaneFromDepth: candidate points <<x, y, depth>>
    iter,            \* fitPlaneRANSAC: loop counter i
    bestPlane,       \* fitPlaneRANSAC: bestPlane
    bestInliers,     \* fitPlaneRANSAC: bestInliers
    tried,           \* fitPlaneRANSAC: history of the loop, [keep, log]: when keep
                     \* is TRUE, log lists the plane and inliers of each iteration
    occluderMask,    \* createOcclusionMask: the returned (refined) occluderMask
    frag,            \* shader: the fragment, see the section on the shaders
    fragStage,       \* shader: what the pattern branch computed for the fragment
    fragOut,         \* shader: gl_FragColor.rgb of that fragment (<<>> before main ran)
    srcPoints,       \* computeHomography: srcPoints, a list of <<x, y>>
    dstPoints,       \* computeHomography: dstPoints
    homOut,          \* computeHomography: how the call ended ([status |-> "none"] before)
    photo,           \* createIlluminationMap: the photo's pixels <<r, g, b>>
    illumMask,       \* createIlluminationMap: floorMask (Float32Array)
    illumOut,        \* createIlluminationMap: red channel of the returned canvas
                     \* (<<>> before the call)
    roomMask,        \* findConnectedComponents: the mask (Float32Array)
    roomComponents,  \* findConnectedComponents: the call's result ([fn |-> "none"] before)
    store,           \* the state of useSceneStore
    uploader,        \* PhotoUploader.handleFileSelect: [pc, file, derived, outcome]
    calls,           \* how many uploads, control changes and imports were started
    lastImport,      \* what the last call of importScene was given and did, when
                     \* it is the last thing that happened to the store
    canvas,          \* VisualizerCanvas: the component's refs, state and listeners
    mesh,            \* VisualizerCanvas: floorMeshRef.current
    rendered,        \* VisualizerCanvas: what the last renderer.render drew
    manager          \* FloorMaterialManager: its materials, its texture loads in
                     \* flight and the last createFloorMaterial call

morphVars == <<repr, orig, mask, prev, op, steps>>
segVars   == <<segs, segOut>>
occVars   == <<depth, pc, floorMask, furnitureMask, points, iter, bestPlane,
               bestInliers, tried, occluderMask>>
fragVars  == <<frag, fragStage, fragOut>>
homVars   == <<srcPoints, dstPoints, homOut>>
illumVars == <<photo, illumMask, illumOut>>
appVars   == <<roomMask, roomComponents, store, uploader, calls, lastImport, canvas,
               mesh, rendered, manager>>
vars      == <<gw, gh, repr, orig, mask, prev, op, steps, segs, segOut, depth, pc, floorMask,
               furnitureMask, points, iter, bestPlane, bestInliers, tried,
               occluderMask, frag, fragStage, fragOut, srcPoints, dstPoints, homOut,
               photo, illumMask, illumOut, roomMask, roomComponents, store, uploader,
               calls, lastImport, canvas, mesh, rendered, manager>>

None == "none"

----------------------------------------------------------------------------
(* Bounds of the model.                                                    *)

\* largest grid width and height explored by the morphology specification
MaxDim == 4
\* largest number of pixels (w*h) of a grid explored by the morphology specification
MaxPixels == 12
\* how many times in a row the morphology specification applies one operation
MaxApply == 2
\* largest number of pixels of a grid handed to the mask builders
MaxSegPixels == 3
\* largest length of a segmentation list
MaxSegs == 2
\* width and height of the grid createOcclusionMask is run on
OccW == 3
OccH == 3
\* largest number of pixels of the floor segment that are on
MaxFloorPixels == 4
\* resolution of the shader's samples: a sampled value is k/Levels, k in 0..Levels
Levels == 2
\* number of iterations of the loop of fitPlaneRANSAC that are explored
\* (the source's default is 1000)
Iterations == 2

Pixels(w, h) == 0 .. (w * h - 1)

EmptyU8(w, h) == [i \in Pixels(w, h) |-> 0]

----------------------------------------------------------------------------
(* src/src/models.ts: postProcessMask, floodFill, refineOccluderMask       *)

\* the 3x3 neighbourhood test with the pixel itself left out
hasNeighborStrict(m, w, x, y) ==
    \E dy \in -1 .. 1 : \E dx \in -1 .. 1 :
        /\ ~(dy = 0 /\ dx = 0)
        /\ m[(y + dy) * w + (x + dx)] = 255

\* the 3x3 neighbourhood test of the erosion loop; dy = dx = 0 is not
\* excluded, so the pixel itself counts
hasNeighbor(m, w, x, y) ==
    \E dy \in -1 .. 1 : \E dx \in -1 .. 1 :
        m[(y + dy) * w + (x + dx)] = 255

\* the erosion loop of postProcessMask: interior pixels only, reads mask,
\* writes processed
erode(m, w, h) ==
    [i \in Pixels(w, h) |->
        LET x == i % w
            y == i \div w
        IN  IF /\ y >= 1 /\ y < h - 1 /\ x >= 1 /\ x < w - 1
               /\ m[i] = 255
               /\ ~hasNeighbor(m, w, x, y)
            THEN 0
            ELSE m[i]]

\* floodFill of models.ts: explicit stack, popped from the end
RECURSIVE floodFill(_, _, _, _, _, _)
floodFill(m, w, h, stack, visited, component) ==
    IF stack = <<>>
    THEN [component |-> component, visited |-> visited]
    ELSE LET top  == stack[Len(stack)]
             rest == SubSeq(stack, 1, Len(stack) - 1)
             x    == top[1]
             y    == top[2]
             idx  == y * w + x
         IN  IF x < 0 \/ x >= w \/ y < 0 \/ y >= h \/ idx \in visited \/ m[idx] # 255
             THEN floodFill(m, w, h, rest, visited, component)
             ELSE floodFill(m, w, h,
                            rest \o << <<x + 1, y>>, <<x - 1, y>>,
                                       <<x, y + 1>>, <<x, y - 1>> >>,
                            visited \cup {idx}, Append(component, idx))

\* the scan of postProcessMask for the largest component (strictly larger
\* replaces, so the first of the largest in scan order is kept)
RECURSIVE scanComponents(_, _, _, _, _, _)
scanComponents(processed, w, h, idx, visited, largest) ==
    IF idx >= w * h
    THEN largest
    ELSE IF processed[idx] = 255 /\ idx \notin visited
         THEN LET r == floodFill(processed, w, h, << <<idx % w, idx \div w>> >>,
                                 visited, <<>>)
              IN  scanComponents(processed, w, h, idx + 1, r.visited,
                                 IF Len(r.component) > Len(largest)
                                 THEN r.component ELSE largest)
         ELSE scanComponents(processed, w, h, idx + 1, visited, largest)

Range(s) == {s[k] : k \in 1 .. Len(s)}

postProcessMask(m, w, h) ==
    LET processed == erode(m, w, h)
        largest   == scanComponents(processed, w, h, 0, {}, <<>>)
    IN  [i \in Pixels(w, h) |-> IF i \in Range(largest) THEN 255 ELSE 0]

\* the pixels refineOccluderMask dilates from: the loops run over
\* 1 <= y < height-1, 1 <= x < width-1
dilationSources(w, h) ==
    {i \in Pixels(w, h) :
        /\ i \div w >= 1 /\ i \div w < h - 1
        /\ i % w >= 1 /\ i % w < w - 1}

\* refineOccluderMask with refined allocated empty instead of copied from
\* mask
refineOccluderMaskFromEmpty(m, w, h) ==
    [i \in Pixels(w, h) |->
        IF \E s \in dilationSources(w, h) :
              /\ m[s] = 255
              /\ \E dy \in -1 .. 1 : \E dx \in -1 .. 1 :
                    ((s \div w) + dy) * w + ((s % w) + dx) = i
        THEN 255
        ELSE 0]

refineOccluderMask(m, w, h) ==
    [i \in Pixels(w, h) |->
        IF \E s \in dilationSources(w, h) :
              /\ m[s] = 255
              /\ \E dy \in -1 .. 1 : \E dx \in -1 .. 1 :
                    LET neighborIdx == ((s \div w) + dy) * w + ((s % w) + dx)
                    IN  /\ neighborIdx >= 0 /\ neighborIdx < w * h
                        /\ neighborIdx = i
        THEN 255
        ELSE m[i]]

----------------------------------------------------------------------------
(* src/src/lib/masks.ts: largestComponent, floodFill, dilateErode          *)

\* mask[idx] > 0.5 on a mask holding 0 or 1
On(v) == 2 * v > 1

\* floodFill of masks.ts: recursive, 4-connected; st carries the visited set
\* and the component being built
RECURSIVE masksFloodFill(_, _, _, _, _, _)
masksFloodFill(x, y, m, w, h, st) ==
    LET idx == y * w + x
    IN  IF x < 0 \/ x >= w \/ y < 0 \/ y >= h \/ idx \in st.visited \/ ~On(m[idx])
        THEN st
        ELSE LET s0 == [visited |-> st.visited \cup {idx},
                        component |-> Append(st.component, idx)]
                 s1 == masksFloodFill(x + 1, y, m, w, h, s0)
                 s2 == masksFloodFill(x - 1, y, m, w, h, s1)
                 s3 == masksFloodFill(x, y + 1, m, w, h, s2)
             IN  masksFloodFill(x, y - 1, m, w, h, s3)

\* the scan of largestComponent: the list of components in scan order
RECURSIVE masksComponents(_, _, _, _, _, _)
masksComponents(m, w, h, idx, visited, components) ==
    IF idx >= w * h
    THEN components
    ELSE IF On(m[idx]) /\ idx \notin visited
         THEN LET r == masksFloodFill(idx % w, idx \div w, m, w, h,
                                      [visited |-> visited, component |-> <<>>])
              IN  masksComponents(m, w, h, idx + 1, r.visited,
                                  Append(components, r.component))
         ELSE masksComponents(m, w, h, idx + 1, visited, components)

\* components.reduce((largest, current) =>
\*     current.length > largest.length ? current : largest, components[0] || [])
RECURSIVE reduceLargest(_, _, _)
reduceLargest(components, k, largest) ==
    IF k > Len(components)
    THEN largest
    ELSE reduceLargest(components, k + 1,
                       IF Len(components[k]) > Len(largest)
                       THEN components[k] ELSE largest)

largestComponent(m, w, h) ==
    LET components == masksComponents(m, w, h, 0, {}, <<>>)
        largest    == reduceLargest(components, 1,
                                    IF components = <<>> THEN <<>> ELSE components[1])
    IN  [i \in Pixels(w, h) |-> IF i \in Range(largest) THEN 1 ELSE 0]

\* in-bounds pixels within the square of the given radius around (x, y)
window(w, h, x, y, radius) ==
    {ny * w + nx : nx \in {c \in (x - radius) .. (x + radius) : c >= 0 /\ c < w},
                   ny \in {c \in (y - radius) .. (y + radius) : c >= 0 /\ c < h}}

\* the first loop of dilateErode
dilate(m, w, h, radius) ==
    [i \in Pixels(w, h) |->
        IF \E s \in Pixels(w, h) :
              On(m[s]) /\ i \in window(w, h, s % w, s \div w, radius)
        THEN 1
        ELSE m[i]]

\* dilateErode: eroded starts as a copy of mask (not of dilated) and the
\* second loop only clears pixels
dilateErode(m, w, h, radius) ==
    LET dilated == dilate(m, w, h, radius)
    IN  [i \in Pixels(w, h) |->
            IF /\ On(dilated[i])
               /\ \E n \in window(w, h, i % w, i \div w, radius) : ~On(dilated[n])
            THEN 0
            ELSE m[i]]

\* the radius buildMasksFromSegmentation passes to dilateErode
FurnitureRadius == 2

----------------------------------------------------------------------------
(* Label vocabularies.                                                     *)

\* src/src/models.ts, FURNITURE_CLASSES (duplicates of the source list
\* collapse in the set)
FURNITURE_CLASSES ==
    {"cabinet", "table", "chair", "sofa", "counter", "appliance", "bed",
     "toilet", "sink", "refrigerator", "stove", "microwave", "dishwasher",
     "washing machine", "dryer", "tv", "monitor", "computer", "lamp",
     "light", "curtain", "blind", "plant", "vase", "book", "magazine",
     "newspaper", "phone", "remote", "key", "wallet", "bag", "backpack",
     "purse", "shoe", "boot", "sneaker", "sandal", "hat", "cap", "scarf",
     "glove", "sock", "underwear", "shirt", "pants", "dress", "skirt",
     "jacket", "coat", "sweater", "hoodie", "t-shirt", "jeans", "shorts",
     "tank top", "blouse", "cardigan", "vest", "tie", "belt", "watch",
     "ring", "necklace", "earring", "bracelet", "anklet", "glasses",
     "sunglasses", "contact lens", "hearing aid", "cane", "walker",
     "wheelchair", "crutch", "pillow", "blanket", "sheet", "comforter",
     "duvet", "mattress", "box spring", "headboard", "footboard",
     "nightstand", "dresser", "wardrobe", "closet", "mirror", "picture",
     "frame", "painting", "poster", "calendar", "clock", "alarm clock",
     "radio", "speaker", "headphone", "earphone", "microphone", "camera",
     "video camera", "tripod", "stand", "mount", "bracket", "shelf",
     "rack", "hook", "hanger", "rod", "pole", "pipe", "tube", "wire",
     "cable", "plug", "outlet", "switch", "button", "knob", "handle",
     "lever", "pedal", "footrest", "armrest", "backrest", "seat",
     "cushion", "pad", "mat", "rug", "carpet", "tile", "wood", "stone",
     "metal", "plastic", "glass", "ceramic", "fabric", "leather", "vinyl",
     "linoleum", "concrete", "brick", "marble", "granite", "slate",
     "limestone", "sandstone", "travertine", "onyx", "jade", "turquoise",
     "coral", "pearl", "diamond", "ruby", "emerald", "sapphire", "opal",
     "amber", "jet", "coal", "charcoal", "ash", "dust", "dirt", "mud",
     "sand", "gravel", "rock", "boulder", "cliff", "mountain", "hill",
     "valley", "canyon", "gorge", "ravine", "gully", "ditch", "trench",
     "moat", "pond", "lake", "river", "stream", "creek", "brook",
     "spring", "well", "fountain", "waterfall", "rapids", "whirlpool",
     "eddy", "current", "wave", "tide", "surf", "spray", "mist", "fog",
     "cloud", "rain", "snow", "sleet", "hail", "ice", "frost", "dew",
     "steam", "smoke", "fire", "flame", "spark", "ember", "paper",
     "cardboard", "rubber"}

\* src/src/models.ts, FLOOR_CLASSES
FLOOR_CLASSES ==
    {"floor", "ground", "pavement", "road", "street", "sidewalk", "path",
     "trail", "track", "lane", "driveway", "parking lot", "playground",
     "field", "meadow", "grass", "lawn", "turf", "soil", "earth", "dirt",
     "sand", "gravel", "stone", "rock", "concrete", "asphalt", "tile",
     "wood", "carpet", "rug", "mat", "linoleum", "vinyl", "marble",
     "granite", "slate", "limestone", "sandstone", "travertine"}

\* src/src/lib/masks.ts, floorLabels
floorLabels ==
    {"floor", "ground", "pavement", "road", "flooring", "wood floor",
     "tile"}

\* src/src/lib/masks.ts, furnitureLabels
furnitureLabels ==
    {"cabinet", "table", "chair", "sofa", "bed", "appliance", "toilet",
     "sink", "counter", "desk", "nightstand"}

\* the labels segments carry in this model: a floor word, a furniture word
\* and a word of neither vocabulary
Labels == {"floor", "table", "wall"}

\* label.toLowerCase().includes(word).  The labels of this model are lower
\* case, and none of them contains a vocabulary word other than itself, so
\* containment is equality here.
includes(label, word) == label = word

----------------------------------------------------------------------------
(* Segments.  A segment is [label, mask], mask giving per pixel the        *)
(* channel the builder thresholds: the red channel of the ImageData in     *)
(* models.ts (mask.data[i], i a multiple of 4), the alpha channel of the   *)
(* decoded PNG in masks.ts (imageData.data[i + 3]).                        *)

\* channel values of a segment mask: the largest value that is off and an
\* on value
PixelVals == {128, 255}

\* src/src/models.ts: toFloorMask.  raw is the mask before postProcessMask.
toFloorMask(segmentation, w, h) ==
    LET isFloor(k) == \E floorClass \in FLOOR_CLASSES :
                          includes(segmentation[k].label, floorClass)
        found == {k \in 1 .. Len(segmentation) : isFloor(k)}
    IN  IF found = {}
        THEN LET floorY == (h * 4) \div 10
                 m == [i \in Pixels(w, h) |-> IF i \div w >= floorY THEN 255 ELSE 0]
             IN  [fn |-> "toFloorMask", fallback |-> TRUE,
                  rawFloor |-> m, floorMask |-> m]
        ELSE LET floorClass == segmentation[CHOOSE k \in found :
                                                \A j \in found : k <= j]
                 m == [i \in Pixels(w, h) |->
                          IF floorClass.mask[i] > 128 THEN 255 ELSE 0]
             IN  [fn |-> "toFloorMask", fallback |-> FALSE,
                  rawFloor |-> m, floorMask |-> postProcessMask(m, w, h)]

\* mask data that is no PNG: fetch of the data URL or createImageBitmap
\* rejects on it
Malformed == <<>>

\* src/src/lib/masks.ts: decodeBase64PngToMask, the thresholding of the
\* decoded alpha channel.  The promise rejects when the data does not
\* decode; nothing in the function catches that.
decodeBase64PngToMask(png, w, h) ==
    IF DOMAIN png = {}
    THEN [rejected |-> TRUE]
    ELSE [rejected |-> FALSE,
          mask |-> [i \in Pixels(w, h) |-> IF png[i] > 128 THEN 1 ELSE 0]]

Max(a, b) == IF a >= b THEN a ELSE b

\* the segment loop of buildMasksFromSegmentation: the two unions after
\* the first k segments, or the rejection of the awaited decode of one of
\* them, which leaves the loop and the function
RECURSIVE masksUnion(_, _, _, _)
masksUnion(segJson, k, w, h) ==
    IF k = 0
    THEN [rejected |-> FALSE,
          floorMask |-> [i \in Pixels(w, h) |-> 0],
          furnitureMask |-> [i \in Pixels(w, h) |-> 0]]
    ELSE LET acc         == masksUnion(segJson, k - 1, w, h)
             segment     == segJson[k]
             isFloor     == \E label \in floorLabels : includes(segment.label, label)
             isFurniture == \E label \in furnitureLabels :
                                includes(segment.label, label)
             decoded     == decodeBase64PngToMask(segment.mask, w, h)
         IN  IF acc.rejected
             THEN acc
             ELSE IF isFloor \/ isFurniture
             THEN IF decoded.rejected
                  THEN [rejected |-> TRUE]
                  ELSE [rejected |-> FALSE,
                        floorMask |->
                           IF isFloor
                           THEN [i \in Pixels(w, h) |->
                                    Max(acc.floorMask[i], decoded.mask[i])]
                           ELSE acc.floorMask,
                        furnitureMask |->
                           IF isFurniture
                           THEN [i \in Pixels(w, h) |->
                                    Max(acc.furnitureMask[i], decoded.mask[i])]
                           ELSE acc.furnitureMask]
             ELSE acc

\* src/src/lib/masks.ts: buildMasksFromSegmentation
buildMasksFromSegmentation(segJson, w, h) ==
    LET u == masksUnion(segJson, Len(segJson), w, h)
    IN  IF u.rejected
        THEN [fn |-> "buildMasksFromSegmentation", rejected |-> TRUE]
        ELSE [fn |-> "buildMasksFromSegmentation", rejected |-> FALSE,
              rawFloor |-> u.floorMask, rawFurniture |-> u.furnitureMask,
              floorMask |-> largestComponent(u.floorMask, w, h),
              furnitureMask |-> dilateErode(u.furnitureMask, w, h, FurnitureRadius)]

\* the segment loop of createOcclusionMask: floor first, furniture only
\* for a label that is no floor label
RECURSIVE occlusionUnion(_, _, _, _)
occlusionUnion(segmentation, k, w, h) ==
    IF k = 0
    THEN [floorMask |-> EmptyU8(w, h), furnitureMask |-> EmptyU8(w, h)]
    ELSE LET acc == occlusionUnion(segmentation, k - 1, w, h)
             seg == segmentation[k]
             on(cur) == [i \in Pixels(w, h) |->
                            IF seg.mask[i] > 128 THEN 255 ELSE cur[i]]
         IN  IF \E floorClass \in FLOOR_CLASSES : includes(seg.label, floorClass)
             THEN [acc EXCEPT !.floorMask = on(acc.floorMask)]
             ELSE IF \E furnitureClass \in FURNITURE_CLASSES :
                        includes(seg.label, furnitureClass)
                  THEN [acc EXCEPT !.furnitureMask = on(acc.furnitureMask)]
                  ELSE acc

----------------------------------------------------------------------------
(* src/src/models.ts: plane fitting and the occlusion test.                *)
(*                                                                         *)
(* A fitted plane is kept by the integer cross product (a, b, c) and       *)
(* d = -(a, b, c).p1; the Float32Array of the source holds these four      *)
(* numbers divided by length = sqrt(a*a + b*b + c*c).  The division does   *)
(* not change the sign of a coefficient, the predicted depth or which      *)
(* points lie within a distance of the plane, so comparisons are made on   *)
(* the integers.  nan marks the plane of a zero cross product (0/0 in all  *)
(* four entries); cNegZero marks c = -0.  A comparison whose two sides are *)
(* equal in exact arithmetic is decided by rounding in the source: the     *)
(* model leaves both outcomes possible.                                    *)

\* new Float32Array([0, 0, 1, 0])
DefaultPlane ==
    [a |-> 0, b |-> 0, c |-> 1, d |-> 0, nan |-> FALSE, cNegZero |-> FALSE]

\* the loop of estimateFloorPlaneFromDepth, with depthValue >= 0 accepted
collectPointsFrom0(depthData, fm, w, h) ==
    LET RECURSIVE go(_)
        go(i) ==
            IF i >= w * h
            THEN <<>>
            ELSE IF fm[i] = 255 /\ depthData[i] >= 0
                 THEN << <<i % w, i \div w, depthData[i]>> >> \o go(i + 1)
                 ELSE go(i + 1)
    IN  go(0)

\* the loop of estimateFloorPlaneFromDepth: the points of the floor mask
\* with depthValue > 0, in scan order
collectPoints(depthData, fm, w, h) ==
    LET RECURSIVE go(_)
        go(i) ==
            IF i >= w * h
            THEN <<>>
            ELSE IF fm[i] = 255 /\ depthData[i] > 0
                 THEN << <<i % w, i \div w, depthData[i]>> >> \o go(i + 1)
                 ELSE go(i + 1)
    IN  go(0)

\* the sign of zero of x*y when the product is zero: TRUE for -0.  A zero
\* factor is a difference of equal numbers, hence +0.
NegZeroProduct(x, y) == (x = 0 /\ y < 0) \/ (x < 0 /\ y = 0)

fitPlaneThroughPoints(sample) ==
    LET p1 == sample[1]
        p2 == sample[2]
        p3 == sample[3]
        v1 == <<p2[1] - p1[1], p2[2] - p1[2], p2[3] - p1[3]>>
        v2 == <<p3[1] - p1[1], p3[2] - p1[2], p3[3] - p1[3]>>
        na == v1[2] * v2[3] - v1[3] * v2[2]
        nb == v1[3] * v2[1] - v1[1] * v2[3]
        nc == v1[1] * v2[2] - v1[2] * v2[1]
    IN  [a |-> na, b |-> nb, c |-> nc,
         d |-> -(na * p1[1] + nb * p1[2] + nc * p1[3]),
         nan |-> (na = 0 /\ nb = 0 /\ nc = 0),
         \* (-0) - (+0) is the only difference of zeros that is -0
         cNegZero |-> /\ nc = 0
                      /\ NegZeroProduct(v1[1], v2[2])
                      /\ v1[2] * v2[1] = 0
                      /\ ~NegZeroProduct(v1[2], v2[1])]

\* distance < 0.1 for one point: "in", "out", or "tie" when the distance
\* is exactly 0.1; every comparison with NaN is false
inlierClass(plane, point) ==
    LET n    == plane.a * point[1] + plane.b * point[2] + plane.c * point[3] + plane.d
        len2 == plane.a * plane.a + plane.b * plane.b + plane.c * plane.c
    IN  IF plane.nan THEN "out"
        ELSE IF 100 * n * n < len2 THEN "in"
        ELSE IF 100 * n * n = len2 THEN "tie"
        ELSE "out"

\* the values the inlier count of a plane can take
inlierCounts(plane, pts) ==
    LET sure == Cardinality({k \in 1 .. Len(pts) : inlierClass(plane, pts[k]) = "in"})
        ties == Cardinality({k \in 1 .. Len(pts) : inlierClass(plane, pts[k]) = "tie"})
    IN  sure .. (sure + ties)

\* pixelDepth < getPlaneDepth(plane, x, y) - 0.1: the set of outcomes.
\* With c = 0 the quotient is an infinity whose sign is that of -(ax+by+d)
\* against the sign of the zero, or NaN when the numerator is zero too.
occludedOutcomes(plane, x, y, pixelDepth) ==
    LET n   == plane.a * x + plane.b * y + plane.d
        lhs == 10 * plane.c * pixelDepth
        rhs == -10 * n - plane.c
    IN  IF plane.nan THEN {FALSE}
        ELSE IF plane.c > 0
             THEN IF lhs < rhs THEN {TRUE} ELSE IF lhs = rhs THEN BOOLEAN ELSE {FALSE}
        ELSE IF plane.c < 0
             THEN IF lhs > rhs THEN {TRUE} ELSE IF lhs = rhs THEN BOOLEAN ELSE {FALSE}
        ELSE IF n = 0 THEN BOOLEAN
        ELSE {(n < 0) # plane.cNegZero}

\* the occluder mask before refinement, for one resolution u of the
\* comparisons rounding decides (u: the undecided pixels taken as occluded)
rawOccluderMask(fm, furn, depthData, plane, w, h, u) ==
    [i \in Pixels(w, h) |->
        IF \/ /\ fm[i] = 255
              /\ \/ occludedOutcomes(plane, i % w, i \div w, depthData[i]) = {TRUE}
                 \/ i \in u
           \/ furn[i] = 255
        THEN 255
        ELSE 0]

undecidedPixels(fm, depthData, plane, w, h) ==
    {i \in Pixels(w, h) :
        /\ fm[i] = 255
        /\ occludedOutcomes(plane, i % w, i \div w, depthData[i]) = BOOLEAN}

----------------------------------------------------------------------------
(* The fragment shaders: main of src/unnamed/part_003 and of               *)
(* src/src/shaders/floor.frag.glsl (the compositor), and getPlankUV and    *)
(* main of the material shader in src/unnamed/part_005.                    *)
(*                                                                         *)
(* A fragment f is given by what main computes from its position: the cell *)
(* floor(uv / uPlankSize) = <<x, y>>, the local coordinate                 *)
(* fract(uv / uPlankSize) in thousandths, the texel that texture2D returns *)
(* for the wood texture at the coordinate the pattern branch computes, and *)
(* the samples of the masks, the illumination map and the photo.  A        *)
(* sample is the integer k standing for k/Levels.  Products keep their     *)
(* denominators: a seam factor is over SeamDen(band), wood.rgb over        *)
(* Levels*SeamDen(15), and the final colour over Levels^4*SeamDen(15).     *)

CompositorShaders == {"part_003", "floor.frag.glsl"}

Min(a, b) == IF a <= b THEN a ELSE b

\* min(min(local.x, 1.0 - local.x), min(local.y, 1.0 - local.y)), thousandths
edgeOf(local) ==
    Min(Min(local[1], 1000 - local[1]), Min(local[2], 1000 - local[2]))

\* smoothstep(0.0, band/1000, edge/1000), over band^3: t*t*(3 - 2*t) for
\* t = clamp(edge/band, 0, 1)
smoothstep(band, edge) ==
    LET c == IF edge < 0 THEN 0 ELSE IF edge > band THEN band ELSE edge
    IN  c * c * (3 * band - 2 * c)

SeamDen(band) == 100 * band * band * band

\* the seam factor with no ramp: the darkening applied whatever the
\* distance to the edge
seamFactorFlat(low, band, edge) == low * band * band * band

\* mix(low/100, 1.0, smoothstep(0.0, band/1000, edge)), over SeamDen(band)
seamFactor(low, band, edge) ==
    low * band * band * band + (100 - low) * smoothstep(band, edge)

\* the pattern branch of main in the compositor shaders.  rule names the
\* branch taken, local is the value of local after it, rot the angle (in
\* degrees) by which the sampling coordinate is turned about the cell
\* centre, jitter whether the hashed jitter is added to it, low the
\* darkest seam factor (hundredths) of the branch.
compositorPattern(f) ==
    IF f.uPattern = 2
    THEN [rule |-> "herringbone", local |-> f.local,
          rot |-> IF (f.cell[1] + f.cell[2]) % 2 < 1 THEN 45 ELSE -45,
          jitter |-> TRUE, low |-> 88]
    ELSE IF f.uPattern = 1 /\ f.shader = "part_003"
         THEN [rule |-> "brick",
               local |-> <<IF f.cell[2] % 2 < 1 THEN f.local[1] + 500 ELSE f.local[1],
                           f.local[2]>>,
               rot |-> 0, jitter |-> FALSE, low |-> 90]
         ELSE [rule |-> "random", local |-> f.local, rot |-> 0, jitter |-> TRUE,
               low |-> 90]

\* wood.rgb when the masks are sampled: the texel times the seam factor,
\* over Levels*SeamDen(15)
wood(f) ==
    LET pat == compositorPattern(f)
    IN  [ch \in 1 .. 3 |-> f.texel[ch] * seamFactor(pat.low, 15, edgeOf(pat.local))]

\* floorMask * occluderMask: the blend factor without the inversion of
\* the occluder mask
blendFactorNotInverted(floorMaskSample, occluderMaskSample) ==
    floorMaskSample * occluderMaskSample

\* floorMask * (1.0 - occluderMask), over Levels^2
blendFactor(floorMaskSample, occluderMaskSample) ==
    floorMaskSample * (Levels - occluderMaskSample)

\* wood.rgb * illumination, per channel
woodWithLight(w, illumination) ==
    [ch \in 1 .. 3 |-> w[ch] * illumination]

\* mix(x, y, a) = x*(1 - a) + y*a for x and y over one denominator and a
\* over Levels^2; the result is over that denominator times Levels^2
mix(x, y, a) ==
    [ch \in 1 .. 3 |-> x[ch] * (Levels * Levels - a) + y[ch] * a]

\* gl_FragColor.rgb of the compositor, over Levels^4*SeamDen(15)
finalColor(f) ==
    mix([ch \in 1 .. 3 |-> f.basePhoto[ch] * Levels * SeamDen(15)],
        woodWithLight(wood(f), f.illumination),
        blendFactor(f.floorMask, f.occluderMask))

\* plankSize of the material shader, thousandths: the default
\* { length: 1.0, width: 0.2 } of createFloorMaterial
plankSize == <<1000, 200>>

\* getPlankUV of the material shader (part_005): localUV after the branch
\* of patternType; the random branch adds randomValue * 0.1 instead of a
\* jitter of 0.02
getPlankUV(f) ==
    LET odd(n) == 2 * (n % 2) > 1
    IN  IF f.uPattern = 0
        THEN [rule |-> "random", local |-> f.local, rot |-> 0, jitter |-> TRUE]
        ELSE IF f.uPattern = 1
        THEN [rule |-> "brick",
              local |-> <<IF odd(f.cell[2]) THEN f.local[1] + 500 ELSE f.local[1],
                          f.local[2]>>,
              rot |-> 0, jitter |-> FALSE]
        ELSE IF f.uPattern = 2
        THEN [rule |-> "herringbone",
              local |-> <<IF odd(f.cell[2]) THEN f.local[1] + 500 ELSE f.local[1],
                          f.local[2]>>,
              rot |-> IF odd(f.cell[2]) THEN 45 ELSE 0, jitter |-> FALSE]
        ELSE [rule |-> "basket",
              local |-> <<IF odd(f.cell[2])
                          THEN f.local[1] + plankSize[1] \div 2 ELSE f.local[1],
                          IF odd(f.cell[1])
                          THEN f.local[2] + plankSize[2] \div 2 ELSE f.local[2]>>,
              rot |-> 0, jitter |-> FALSE]

\* gl_FragColor.rgb of the material shader: the texel times
\* mix(0.8, 1.0, smoothstep(0.0, 0.05, seam)), seam taken from
\* fract(transformedUV / plankSize); over Levels*SeamDen(50)
materialColor(f) ==
    [ch \in 1 .. 3 |-> f.texel[ch] * seamFactor(80, 50, edgeOf(f.local))]

----------------------------------------------------------------------------
(* Values of the variables a specification does not use.                   *)

IdleMorph ==
    /\ repr = None /\ orig = None /\ mask = None /\ prev = None
    /\ op = None /\ steps = 0

IdleSeg == segs = <<>> /\ segOut = [fn |-> None]

IdleOcc ==
    /\ depth = None /\ pc = None /\ floorMask = None /\ furnitureMask = None
    /\ points = <<>> /\ iter = 0 /\ bestPlane = None /\ bestInliers = 0
    /\ tried = [keep |-> FALSE, log |-> <<>>] /\ occluderMask = None

IdleFrag == frag = None /\ fragStage = [rule |-> None] /\ fragOut = <<>>

IdleHom == srcPoints = <<>> /\ dstPoints = <<>> /\ homOut = [status |-> None]

IdleIllum == photo = None /\ illumMask = None /\ illumOut = <<>>

IdleRoom == roomMask = None /\ roomComponents = [fn |-> None]

IdleStore ==
    /\ store = None /\ uploader = [pc |-> None]
    /\ calls = None /\ lastImport = [source |-> None]

IdleCanvas ==
    canvas = [phase |-> None] /\ mesh = [kind |-> None] /\ rendered = [kind |-> None]

IdleManager == manager = [pc |-> None]

IdleApp == IdleRoom /\ IdleStore /\ IdleCanvas /\ IdleManager

----------------------------------------------------------------------------
(* Morphology: each operation applied to every mask of every small grid,   *)
(* and then again to its own result.                                       *)

GridDims == {d \in (1 .. MaxDim) \X (1 .. MaxDim) : d[1] * d[2] <= MaxPixels}

InitMorph ==
    /\ \E d \in GridDims : gw = d[1] /\ gh = d[2]
    /\ repr \in {"Uint8Array", "Float32Array"}
    /\ mask \in [Pixels(gw, gh) -> IF repr = "Uint8Array" THEN {0, 255} ELSE {0, 1}]
    /\ orig = mask
    /\ prev = None
    /\ op = None
    /\ steps = 0
    /\ IdleSeg /\ IdleOcc /\ IdleFrag /\ IdleHom /\ IdleIllum /\ IdleApp

Apply(name, result) ==
    /\ steps < MaxApply
    /\ op \in {None, name}
    /\ mask' = result
    /\ prev' = mask
    /\ op' = name
    /\ steps' = steps + 1
    /\ UNCHANGED <<gw, gh, repr, orig, segVars, occVars, fragVars, homVars, illumVars, appVars>>

ApplyPostProcessMask ==
    /\ repr = "Uint8Array"
    /\ Apply("postProcessMask", postProcessMask(mask, gw, gh))

ApplyRefineOccluderMask ==
    /\ repr = "Uint8Array"
    /\ Apply("refineOccluderMask", refineOccluderMask(mask, gw, gh))

ApplyLargestComponent ==
    /\ repr = "Float32Array"
    /\ Apply("largestComponent", largestComponent(mask, gw, gh))

ApplyDilateErode ==
    /\ repr = "Float32Array"
    /\ Apply("dilateErode", dilateErode(mask, gw, gh, FurnitureRadius))

NextMorph ==
    \/ ApplyPostProcessMask
    \/ ApplyRefineOccluderMask
    \/ ApplyLargestComponent
    \/ ApplyDilateErode

SpecMorph == InitMorph /\ [][NextMorph]_vars

\* the in-bounds pixels of the 3x3 neighbourhood of pixel p, p excluded
Neighbours3x3(w, h, p) == window(w, h, p % w, p \div w, 1) \ {p}

(* C4: refineOccluderMask is a full 3x3 dilation: every in-bounds pixel of *)
(* the 3x3 neighbourhood of a pixel that is on in the input, border pixels *)
(* included, is on in the output.                                          *)
C4_FullDilation ==
    (op = "refineOccluderMask" /\ steps = 1) =>
        \A p \in Pixels(gw, gh) :
            prev[p] = 255 =>
                \A q \in Neighbours3x3(gw, gh, p) \cup {p} : mask[q] = 255

(* C7: floor-mask post-processing removes isolated points: a pixel that is *)
(* on in the input with no other on pixel in its 3x3 neighbourhood is off  *)
(* in the post-processed mask.                                             *)
C7_IsolatedPointsRemoved ==
    (op = "postProcessMask" /\ steps = 1) =>
        \A p \in Pixels(gw, gh) :
            (prev[p] = 255 /\ \A q \in Neighbours3x3(gw, gh, p) : prev[q] = 0)
                => mask[p] = 0

(* C8: the furniture-mask closing fills pinholes: an off pixel that has    *)
(* neighbours within the structuring radius, all of them on in the input,  *)
(* is on in the output of dilateErode.                                     *)
C8_PinholesFilled ==
    (op = "dilateErode" /\ steps = 1) =>
        \A p \in Pixels(gw, gh) :
            LET nb == window(gw, gh, p % gw, p \div gw, FurnitureRadius) \ {p}
            IN  (~On(prev[p]) /\ nb # {} /\ \A q \in nb : On(prev[q]))
                    => On(mask[p])

(* C9: largest-connected-component extraction is idempotent:               *)
(* largestComponent, and postProcessMask, applied to its own output        *)
(* returns that output unchanged.                                          *)
C9_Idempotent ==
    (op \in {"largestComponent", "postProcessMask"} /\ steps >= 2) => mask = prev

\* a second application to a result from which the first application had
\* discarded a smaller component
C9_Witness ==
    /\ op = "largestComponent" /\ steps = 2
    /\ orig # prev
    /\ \E p \in Pixels(gw, gh) : prev[p] = 1
    /\ mask = prev

----------------------------------------------------------------------------
(* Mask builders: toFloorMask and buildMasksFromSegmentation applied to    *)
(* every short segmentation list over every small grid.                    *)

SegDims ==
    {d \in (1 .. MaxSegPixels) \X (1 .. MaxSegPixels) : d[1] * d[2] <= MaxSegPixels}

Segments(w, h) == [label : Labels, mask : [Pixels(w, h) -> PixelVals]]

SeqsUpTo(S, n) == UNION {[1 .. k -> S] : k \in 0 .. n}

InitSeg ==
    /\ \E d \in SegDims : gw = d[1] /\ gh = d[2]
    /\ segs \in SeqsUpTo(Segments(gw, gh), MaxSegs)
    /\ segOut = [fn |-> None]
    /\ IdleMorph /\ IdleOcc /\ IdleFrag /\ IdleHom /\ IdleIllum /\ IdleApp

RunToFloorMask ==
    /\ segOut.fn = None
    /\ segOut' = toFloorMask(segs, gw, gh)
    /\ UNCHANGED <<gw, gh, segs, morphVars, occVars, fragVars, homVars, illumVars, appVars>>

RunBuildMasksFromSegmentation ==
    /\ segOut.fn = None
    /\ segOut' = buildMasksFromSegmentation(segs, gw, gh)
    /\ UNCHANGED <<gw, gh, segs, morphVars, occVars, fragVars, homVars, illumVars, appVars>>

NextSeg == RunToFloorMask \/ RunBuildMasksFromSegmentation

SpecSeg == InitSeg /\ [][NextSeg]_vars

\* buildMasksFromSegmentation on lists in which a segment's mask data may
\* be malformed
InitDecode ==
    /\ \E d \in SegDims : gw = d[1] /\ gh = d[2]
    /\ segs \in SeqsUpTo([label : Labels,
                          mask : [Pixels(gw, gh) -> PixelVals] \cup {Malformed}],
                         MaxSegs)
    /\ segOut = [fn |-> None]
    /\ IdleMorph /\ IdleOcc /\ IdleFrag /\ IdleHom /\ IdleIllum /\ IdleApp

NextDecode == RunBuildMasksFromSegmentation

SpecDecode == InitDecode /\ [][NextDecode]_vars

\* the segments of the list whose label matches the floor vocabulary of
\* the function that ran, and those it classifies as furniture
FloorSegs ==
    {k \in 1 .. Len(segs) :
        \E word \in (IF segOut.fn = "toFloorMask" THEN FLOOR_CLASSES ELSE floorLabels) :
            includes(segs[k].label, word)}

FurnitureSegs ==
    {k \in 1 .. Len(segs) : \E word \in furnitureLabels : includes(segs[k].label, word)}

(* C2: the floorMask and furnitureMask a mask builder returns are never    *)
(* both on at the same pixel.                                              *)
C2_MasksDisjoint ==
    /\ segOut.fn = "buildMasksFromSegmentation" =>
          \A p \in Pixels(gw, gh) :
              ~(On(segOut.floorMask[p]) /\ On(segOut.furnitureMask[p]))
    /\ pc = "done" =>
          \A p \in Pixels(gw, gh) :
              ~(floorMask[p] = 255 /\ furnitureMask[p] = 255)

(* C5: when no segment of the list carries a floor label (the empty list   *)
(* included), the floor mask built is on exactly at the pixels with        *)
(* y/height > 0.4, that is 10*y > 4*height, and off everywhere else.       *)
C5_FallbackBottom ==
    (segOut.fn # None /\ FloorSegs = {}) =>
        \A p \in Pixels(gw, gh) :
            (segOut.floorMask[p] # 0) <=> (10 * (p \div gw) > 4 * gh)

(* C6: before post-processing, the floor mask is the per-pixel OR of the   *)
(* masks of all segments whose label matches the floor vocabulary, and the *)
(* furniture mask the per-pixel OR of all furniture-classified segments.   *)
C6_UnionOfAll ==
    /\ (segOut.fn # None /\ FloorSegs # {}) =>
          \A p \in Pixels(gw, gh) :
              (segOut.rawFloor[p] # 0) <=> \E k \in FloorSegs : segs[k].mask[p] > 128
    /\ segOut.fn = "buildMasksFromSegmentation" =>
          \A p \in Pixels(gw, gh) :
              (segOut.rawFurniture[p] # 0)
                  <=> \E k \in FurnitureSegs : segs[k].mask[p] > 128

----------------------------------------------------------------------------
(* createOcclusionMask, run on a floor segment and at most one more over    *)
(* a depth map; the loop of fitPlaneRANSAC advances one iteration per      *)
(* step, the three points of an iteration being any three of the           *)
(* candidates.                                                             *)

\* masks of a floor segment: the rectangles of at most MaxFloorPixels
\* pixels that reach the bottom row, and the empty mask
FloorShapes(w, h) ==
    {[i \in Pixels(w, h) |-> 128]} \cup
    {[i \in Pixels(w, h) |->
        IF i % w >= r[1] /\ i % w <= r[2] /\ i \div w >= r[3] THEN 255 ELSE 128] :
     r \in {t \in (0 .. w - 1) \X (0 .. w - 1) \X (0 .. h - 1) :
               /\ t[1] <= t[2]
               /\ (t[2] - t[1] + 1) * (h - t[3]) <= MaxFloorPixels}}

\* the segments that may follow the floor segment: none, a "table" of one
\* pixel, or a "wall" covering the image
SecondSegments(w, h) ==
    {<<>>} \cup
    {<< [label |-> "table", mask |-> [i \in Pixels(w, h) |-> IF i = p THEN 255 ELSE 0]] >> :
        p \in Pixels(w, h)} \cup
    {<< [label |-> "wall", mask |-> [i \in Pixels(w, h) |-> 255]] >>}

\* depth maps: constant 2, or growing by 1 per row towards the top of the
\* image, with at most one pixel replaced by 0 (no depth) or 1 (nearer)
DepthMaps(w, h) ==
    LET base(g) == [i \in Pixels(w, h) |-> 2 + g * (h - 1 - (i \div w))]
    IN  {base(g) : g \in {0, 1}} \cup
        {[base(g) EXCEPT ![p] = v] : g \in {0, 1}, p \in Pixels(w, h), v \in {0, 1}}

InitOcc ==
    /\ gw = OccW /\ gh = OccH
    /\ \E f \in FloorShapes(gw, gh), rest \in SecondSegments(gw, gh) :
          segs = << [label |-> "floor", mask |-> f] >> \o rest
    /\ depth \in DepthMaps(gw, gh)
    /\ pc = "start"
    /\ floorMask = None /\ furnitureMask = None /\ points = <<>>
    /\ iter = 0 /\ bestPlane = None /\ bestInliers = 0
    /\ tried = [keep |-> FALSE, log |-> <<>>] /\ occluderMask = None
    /\ segOut = [fn |-> None]
    /\ IdleMorph /\ IdleFrag /\ IdleHom /\ IdleIllum /\ IdleApp

\* lines 93-132 and estimateFloorPlaneFromDepth up to the call of
\* fitPlaneRANSAC, and the early return of fitPlaneRANSAC
OccBuildMasks ==
    /\ pc = "start"
    /\ LET u   == occlusionUnion(segs, Len(segs), gw, gh)
           fm  == postProcessMask(u.floorMask, gw, gh)
           pts == collectPoints(depth, fm, gw, gh)
       IN  /\ floorMask' = fm
           /\ furnitureMask' = u.furnitureMask
           /\ points' = pts
           /\ bestPlane' = DefaultPlane
           /\ bestInliers' = 0
           /\ iter' = 0
           /\ pc' = IF Len(pts) < 3 THEN "test" ELSE "ransac"
    /\ UNCHANGED <<gw, gh, segs, segOut, depth, tried, occluderMask, morphVars,
                   fragVars, homVars, illumVars, appVars>>

\* one iteration of the loop of fitPlaneRANSAC
RansacIteration ==
    /\ pc = "ransac"
    /\ iter < Iterations
    /\ \E plane \in {fitPlaneThroughPoints(<<points[i1], points[i2], points[i3]>>) :
                         i1 \in 1 .. Len(points), i2 \in 1 .. Len(points),
                         i3 \in 1 .. Len(points)} :
          \E inliers \in inlierCounts(plane, points) :
              /\ IF inliers > bestInliers
                 THEN bestInliers' = inliers /\ bestPlane' = plane
                 ELSE UNCHANGED <<bestInliers, bestPlane>>
              /\ tried' = IF tried.keep
                          THEN [tried EXCEPT !.log =
                                   Append(@, [plane |-> plane, inliers |-> inliers])]
                          ELSE tried
    /\ iter' = iter + 1
    /\ UNCHANGED <<gw, gh, segs, segOut, depth, pc, floorMask, furnitureMask, points,
                   occluderMask, morphVars, fragVars, homVars, illumVars,
                 appVars>>

\* the loop of fitPlaneRANSAC ends: return bestPlane
RansacReturn ==
    /\ pc = "ransac"
    /\ iter = Iterations
    /\ pc' = "test"
    /\ UNCHANGED <<gw, gh, segs, segOut, depth, floorMask, furnitureMask, points, iter,
                   bestPlane, bestInliers, tried, occluderMask, morphVars, fragVars, homVars, illumVars,
                 appVars>>

\* lines 134-165: the depth test, the union with the furniture mask and
\* the refinement
OcclusionTest ==
    /\ pc = "test"
    /\ \E u \in SUBSET undecidedPixels(floorMask, depth, bestPlane, gw, gh) :
          occluderMask' =
              refineOccluderMask(
                  rawOccluderMask(floorMask, furnitureMask, depth, bestPlane, gw, gh, u),
                  gw, gh)
    /\ pc' = "done"
    /\ UNCHANGED <<gw, gh, segs, segOut, depth, floorMask, furnitureMask, points, iter,
                   bestPlane, bestInliers, tried, morphVars, fragVars, homVars, illumVars,
                 appVars>>

NextOcc == OccBuildMasks \/ RansacIteration \/ RansacReturn \/ OcclusionTest

SpecOcc == InitOcc /\ [][NextOcc]_vars

\* Plane fitting examined iteration by iteration: createOcclusionMask on a
\* RansacDim x RansacDim image that is all floor, every pixel without depth
\* (0) or at one of two depths, with the history of the loop kept.  With
\* all depths 5 the candidates are (0,0,5), (1,0,5), (0,1,5), (1,1,5).
RansacDim == 2

RansacDepths == {0, 5, 6}

InitRansac ==
    /\ gw = RansacDim /\ gh = RansacDim
    /\ segs = << [label |-> "floor", mask |-> [i \in Pixels(gw, gh) |-> 255]] >>
    /\ depth \in [Pixels(gw, gh) -> RansacDepths]
    /\ pc = "start"
    /\ floorMask = None /\ furnitureMask = None /\ points = <<>>
    /\ iter = 0 /\ bestPlane = None /\ bestInliers = 0
    /\ tried = [keep |-> TRUE, log |-> <<>>]
    /\ occluderMask = None
    /\ segOut = [fn |-> None]
    /\ IdleMorph /\ IdleFrag /\ IdleHom /\ IdleIllum /\ IdleApp

SpecRansac == InitRansac /\ [][NextOcc]_vars

\* the floor pixels that carry a depth sample: floorMask on and depth > 0
FloorSamples == {p \in Pixels(gw, gh) : floorMask[p] = 255 /\ depth[p] > 0}

\* pixelDepth < -(a*x + b*y + d)/c - 0.1 for a plane with c # 0, both
\* sides multiplied by 10*|c|
NearerThanPlane(plane, x, y, pixelDepth) ==
    LET predictedTimesC == -(plane.a * x + plane.b * y + plane.d)
    IN  /\ ~plane.nan
        /\ \/ plane.c > 0 /\ 10 * plane.c * pixelDepth < 10 * predictedTimesC - plane.c
           \/ plane.c < 0 /\ 10 * plane.c * pixelDepth > 10 * predictedTimesC - plane.c

(* C3: the occluderMask createOcclusionMask returns is on at every pixel   *)
(* that is on in furnitureMask, and at every floor pixel whose depth is    *)
(* less than the plane-predicted depth at that pixel minus 0.1.            *)
C3_OccluderCovers ==
    pc = "done" =>
        \A p \in Pixels(gw, gh) :
            /\ furnitureMask[p] = 255 => occluderMask[p] = 255
            /\ (/\ floorMask[p] = 255
                /\ NearerThanPlane(bestPlane, p % gw, p \div gw, depth[p]))
                   => occluderMask[p] = 255

\* a run with a fitted plane, a floor pixel in front of it that is not
\* furniture, and a furniture pixel on the image border
C3_Witness ==
    /\ pc = "done"
    /\ bestPlane # DefaultPlane
    /\ \E p \in Pixels(gw, gh) :
          /\ floorMask[p] = 255 /\ furnitureMask[p] = 0
          /\ NearerThanPlane(bestPlane, p % gw, p \div gw, depth[p])
          /\ occluderMask[p] = 255
    /\ \E q \in Pixels(gw, gh) \ dilationSources(gw, gh) :
          furnitureMask[q] = 255 /\ occluderMask[q] = 255

(* C10: with fewer than 3 pixels both in the floor mask and of depth > 0,  *)
(* plane fitting returns the default plane (0, 0, 1, 0) without running an *)
(* iteration, and createOcclusionMask goes on with it.                     *)
C10_DefaultPlane ==
    (pc # "start" /\ Cardinality(FloorSamples) < 3) =>
        /\ pc \in {"test", "done"}
        /\ iter = 0
        /\ bestPlane = DefaultPlane

\* a finished run on a floor of at least 3 pixels of which fewer than 3
\* carry a depth
C10_Witness ==
    /\ pc = "done"
    /\ Cardinality({p \in Pixels(gw, gh) : floorMask[p] = 255}) >= 3
    /\ Cardinality(FloorSamples) = 2
    /\ bestPlane = DefaultPlane

\* the planes fitPlaneThroughPoints gives for the triples of candidates
TriplePlanes ==
    {fitPlaneThroughPoints(<<points[i1], points[i2], points[i3]>>) :
        i1 \in 1 .. Len(points), i2 \in 1 .. Len(points), i3 \in 1 .. Len(points)}

\* the planes through three candidates on which every candidate lies
\* exactly; not empty when the candidates are coplanar and not collinear
TruePlanes ==
    {t \in TriplePlanes :
        /\ ~t.nan
        /\ \A k \in 1 .. Len(points) :
              t.a * points[k][1] + t.b * points[k][2] + t.c * points[k][3] + t.d = 0}

\* the coefficient vectors of p and q are proportional
Proportional(p, q) ==
    LET vp == <<p.a, p.b, p.c, p.d>>
        vq == <<q.a, q.b, q.c, q.d>>
    IN  /\ ~p.nan /\ ~q.nan
        /\ \A i \in 1 .. 4 : \A j \in 1 .. 4 : vp[i] * vq[j] = vp[j] * vq[i]

(* C11: for a perfectly planar candidate set (three or more candidates,    *)
(* all on one plane, not all on one line), whatever triples the iterations *)
(* draw, fitPlaneRANSAC returns coefficients proportional to that plane.   *)
C11_PlanarRecovered ==
    (pc \in {"test", "done"} /\ Len(points) >= 3 /\ TruePlanes # {}) =>
        \E t \in TruePlanes : Proportional(bestPlane, t)

(* C12: the plane fitPlaneRANSAC returns is one of the planes tried, its   *)
(* inlier count is the maximum over the planes tried, and it is the first  *)
(* tried plane with that count.                                            *)
C12_FirstOfBest ==
    (tried.keep /\ pc \in {"test", "done"} /\ Len(points) >= 3) =>
        \E k \in 1 .. Len(tried.log) :
            /\ bestPlane = tried.log[k].plane
            /\ \A j \in 1 .. Len(tried.log) : tried.log[j].inliers <= tried.log[k].inliers
            /\ \A j \in 1 .. (k - 1) : tried.log[j].inliers < tried.log[k].inliers

(* C13: the plane fitPlaneRANSAC returns, which the occlusion test hands   *)
(* to getPlaneDepth, has c # 0 (and is a plane of numbers), so the depth   *)
(* query never divides by zero.                                            *)
C13_NonZeroC ==
    pc \in {"test", "done"} => (~bestPlane.nan /\ bestPlane.c # 0)

----------------------------------------------------------------------------
(* The shaders run on one fragment: the final blend for every combination  *)
(* of mask, illumination, photo and texel samples, and the pattern branch  *)
(* for every pattern index, cell parity and position in the cell.          *)

Samples == 0 .. Levels

\* colours whose channels are 0 or 1
Colours == [1 .. 3 -> {0, Levels}]

\* a mid grey, as the solid colour (128, 128, 128)
Grey == [ch \in 1 .. 3 |-> Levels \div 2]

\* cells of both parities in x and y, a negative row among them
Cells == {0, 1} \X {-1, 0, 1}

\* local coordinates (thousandths): on a cell edge, inside the seam band
\* of 0.015, at the cell centre and beyond it
Locals == {0, 7, 500, 600} \X {7, 500}

\* fragments of the compositor for the final blend
BlendFragments ==
    [shader : CompositorShaders, uPattern : {0}, cell : {<<0, 0>>},
     local : {<<500, 500>>, <<7, 500>>}, texel : Colours,
     floorMask : Samples, occluderMask : Samples, illumination : Samples,
     basePhoto : Colours]

\* fragments of unoccluded floor under illumination 1.0, for the pattern
\* branch of every shader
PatternFragments ==
    [shader : CompositorShaders \cup {"part_005"}, uPattern : 0 .. 3, cell : Cells,
     local : Locals, texel : {Grey, [ch \in 1 .. 3 |-> Levels]},
     floorMask : {Levels}, occluderMask : {0}, illumination : {Levels},
     basePhoto : {[ch \in 1 .. 3 |-> 0]}]

InitFrag ==
    /\ frag \in BlendFragments \cup PatternFragments
    /\ fragStage = [rule |-> None]
    /\ fragOut = <<>>
    /\ gw = 1 /\ gh = 1
    /\ IdleMorph /\ IdleSeg /\ IdleOcc /\ IdleHom /\ IdleIllum /\ IdleApp

\* main of part_003 and of floor.frag.glsl
ShaderMain ==
    /\ fragOut = <<>>
    /\ frag.shader \in CompositorShaders
    /\ fragStage' = compositorPattern(frag)
    /\ fragOut' = finalColor(frag)
    /\ UNCHANGED <<gw, gh, frag, morphVars, segVars, occVars, homVars, illumVars, appVars>>

\* main of the material shader of part_005
MaterialMain ==
    /\ fragOut = <<>>
    /\ frag.shader = "part_005"
    /\ fragStage' = getPlankUV(frag)
    /\ fragOut' = materialColor(frag)
    /\ UNCHANGED <<gw, gh, frag, morphVars, segVars, occVars, homVars, illumVars, appVars>>

NextFrag == ShaderMain \/ MaterialMain

SpecFrag == InitFrag /\ [][NextFrag]_vars

\* the blend weight floorMask*(1 - occluderMask) of the fragment is 0 / is 1
WeightIsZero == frag.floorMask = 0 \/ frag.occluderMask = Levels
WeightIsOne  == frag.floorMask = Levels /\ frag.occluderMask = 0

(* C1: in the final blend, when the weight floorMask*(1-occluderMask) is 0 *)
(* the output colour is the photo pixel exactly, and when it is 1 the      *)
(* output is material colour (wood.rgb) times illumination with no photo   *)
(* contribution.                                                           *)
C1_BlendBoundary ==
    (fragOut # <<>> /\ frag.shader \in CompositorShaders) =>
        \A ch \in 1 .. 3 :
            /\ WeightIsZero =>
                  fragOut[ch] = frag.basePhoto[ch] * Levels * Levels * Levels * SeamDen(15)
            /\ WeightIsOne =>
                  fragOut[ch] = wood(frag)[ch] * frag.illumination * Levels * Levels

\* a fully occluded floor fragment that shows the photo although material
\* and photo differ
C1_Witness ==
    /\ fragOut # <<>>
    /\ frag.shader \in CompositorShaders
    /\ frag.floorMask = Levels /\ frag.occluderMask = Levels
    /\ frag.illumination = Levels
    /\ frag.basePhoto # frag.texel
    /\ \A ch \in 1 .. 3 :
          fragOut[ch] = frag.basePhoto[ch] * Levels * Levels * Levels * SeamDen(15)

\* the row index cell.y of the fragment is odd
OddRow == frag.cell[2] % 2 = 1

(* C17: in brick pattern mode (pattern index 1) the shader offsets local.x *)
(* by 0.5 exactly for the cells whose row index cell.y is odd, and applies *)
(* no offset for the cells whose cell.y is even.                           *)
C17_BrickOddRows ==
    (fragOut # <<>> /\ frag.uPattern = 1) =>
        fragStage.local = <<IF OddRow THEN frag.local[1] + 500 ELSE frag.local[1],
                            frag.local[2]>>

(* C18: with pattern index 3 (basket) the compositor applies the basket    *)
(* layout, not the random-plank rule: local.x is offset by half a plank    *)
(* length in alternating rows and local.y by half a plank width in         *)
(* alternating columns, and nowhere else.                                  *)
C18_BasketLayout ==
    (fragOut # <<>> /\ frag.uPattern = 3) =>
        /\ fragStage.rule = "basket"
        /\ fragStage.local[1] \in {frag.local[1], frag.local[1] + plankSize[1] \div 2}
        /\ fragStage.local[2] \in {frag.local[2], frag.local[2] + plankSize[2] \div 2}
        /\ (fragStage.local[1] # frag.local[1]) <=> OddRow
        /\ (fragStage.local[2] # frag.local[2]) <=> (frag.cell[1] % 2 = 1)

\* the fragment of the scenario after main: floor mask on, occluder mask
\* off, illumination 1.0, solid grey material, in a compositor shader
SolidScenario ==
    /\ fragOut # <<>>
    /\ frag.shader \in CompositorShaders
    /\ WeightIsOne
    /\ frag.illumination = Levels
    /\ frag.texel = Grey

\* the solid grey in the units of fragOut
FullGrey == (Levels \div 2) * Levels * Levels * Levels * SeamDen(15)

----------------------------------------------------------------------------
(* src/unnamed/part_004: computeHomography.  A point is <<x, y>>; the      *)
(* matrix is the flat list of nine numbers the function returns.           *)

\* largest number of points in a list handed to computeHomography
MaxCorr == 5
\* largest side of the squares the point lists are taken from
MaxScale == 2
\* largest offset of those squares in x and in y
MaxOffset == 1

\* computeFallbackHomography: the identity
computeFallbackHomography == <<1, 0, 0, 0, 1, 0, 0, 0, 1>>

\* solveDLT ignores its argument and returns the fallback
solveDLT(A) == computeFallbackHomography

\* the two rows of A built from correspondence i
dltRows(src, dst) ==
    << <<src[1], src[2], 1, 0, 0, 0, -dst[1] * src[1], -dst[1] * src[2], -dst[1]>>,
       <<0, 0, 0, src[1], src[2], 1, -dst[2] * src[1], -dst[2] * src[2], -dst[2]>> >>

\* the loop of computeHomography: A, eight rows
buildA(src, dst) ==
    dltRows(src[1], dst[1]) \o dltRows(src[2], dst[2])
        \o dltRows(src[3], dst[3]) \o dltRows(src[4], dst[4])

\* computeHomography with the length test joined by && instead of ||; a
\* list shorter than 4 is read past its end (undefined.x throws a TypeError)
computeHomographyBothWrong(src, dst) ==
    IF Len(src) # 4 /\ Len(dst) # 4
    THEN [status |-> "thrown", error |-> "Need exactly 4 point correspondences"]
    ELSE IF Len(src) < 4 \/ Len(dst) < 4
         THEN [status |-> "thrown", error |-> "TypeError"]
         ELSE [status |-> "returned", h |-> solveDLT(buildA(src, dst))]

computeHomography(src, dst) ==
    IF Len(src) # 4 \/ Len(dst) # 4
    THEN [status |-> "thrown", error |-> "Need exactly 4 point correspondences"]
    ELSE [status |-> "returned", h |-> solveDLT(buildA(src, dst))]

\* the corners of the unit square, in order around it
Corner(k) == << <<0, 0>>, <<1, 0>>, <<1, 1>>, <<0, 1>> >>[((k - 1) % 4) + 1]

\* point lists: the first n corners (going round again after the fourth)
\* of a square of side sc at offset <<ox, oy>>
PointLists ==
    {[k \in 1 .. n |-> <<ox + sc * Corner(k)[1], oy + sc * Corner(k)[2]>>] :
        n \in 0 .. MaxCorr, sc \in 1 .. MaxScale,
        ox \in 0 .. MaxOffset, oy \in 0 .. MaxOffset}

InitHom ==
    /\ srcPoints \in PointLists
    /\ dstPoints \in PointLists
    /\ homOut = [status |-> None]
    /\ gw = 1 /\ gh = 1
    /\ IdleMorph /\ IdleSeg /\ IdleOcc /\ IdleFrag /\ IdleIllum /\ IdleApp

RunComputeHomography ==
    /\ homOut.status = None
    /\ homOut' = computeHomography(srcPoints, dstPoints)
    /\ UNCHANGED <<gw, gh, srcPoints, dstPoints, morphVars, segVars, occVars, fragVars,
                   illumVars, appVars>>

NextHom == RunComputeHomography

SpecHom == InitHom /\ [][NextHom]_vars

(* C14: computeHomography fails with the invalid-input error, returning no *)
(* matrix, whenever the number of source points or the number of           *)
(* destination points is not exactly 4.                                    *)
C14_NeedsFour ==
    (homOut.status # None /\ (Len(srcPoints) # 4 \/ Len(dstPoints) # 4)) =>
        /\ homOut.status = "thrown"
        /\ homOut.error = "Need exactly 4 point correspondences"

\* a call with four source points and three destination points, rejected
C14_Witness ==
    /\ Len(srcPoints) = 4 /\ Len(dstPoints) = 3
    /\ homOut.status = "thrown"
    /\ homOut.error = "Need exactly 4 point correspondences"

\* row r of A times the vector h
RowTimes(r, h) ==
    r[1] * h[1] + r[2] * h[2] + r[3] * h[3] + r[4] * h[4] + r[5] * h[5]
        + r[6] * h[6] + r[7] * h[7] + r[8] * h[8] + r[9] * h[9]

\* no three of the four points on one line
GeneralPosition(pts) ==
    \A i \in 1 .. 4 : \A j \in 1 .. 4 : \A k \in 1 .. 4 :
        (i < j /\ j < k) =>
            (pts[j][1] - pts[i][1]) * (pts[k][2] - pts[i][2])
                # (pts[j][2] - pts[i][2]) * (pts[k][1] - pts[i][1])

(* C15: for 4 correspondences in general position the matrix returned by   *)
(* computeHomography solves the DLT system: for each correspondence the    *)
(* third component w of H*(x, y, 1) is not 0 and the first two are x'*w    *)
(* and y'*w, so the perspective divide gives the destination point.        *)
C15_SolvesDLT ==
    (/\ homOut.status # None
     /\ Len(srcPoints) = 4 /\ Len(dstPoints) = 4
     /\ GeneralPosition(srcPoints) /\ GeneralPosition(dstPoints)) =>
        /\ homOut.status = "returned"
        /\ \A i \in 1 .. 4 :
              LET rows == dltRows(srcPoints[i], dstPoints[i])
                  w    == homOut.h[7] * srcPoints[i][1] + homOut.h[8] * srcPoints[i][2]
                              + homOut.h[9]
              IN  /\ w # 0
                  /\ RowTimes(rows[1], homOut.h) = 0
                  /\ RowTimes(rows[2], homOut.h) = 0

----------------------------------------------------------------------------
(* src/src/lib/illumination.ts: createIlluminationMap.  Luminance is kept  *)
(* in thousandths (299*r + 587*g + 114*b), a blurred value as the exact    *)
(* fraction [num, den], and a normalized value 0.8 + 0.4*t by the reduced  *)
(* fraction t = [p, q].                                                    *)

\* the radius createIlluminationMap passes to blurLuminance
BlurRadius == 40

\* largest width of the one-row photos explored
MaxIllumW == 42

\* a typed array filled in by a loop: the function f on S with every value
\* computed once
RECURSIVE Filled(_, _)
Filled(f, S) ==
    IF S = {} THEN <<>>
    ELSE LET e == CHOOSE e \in S : TRUE IN (e :> f[e]) @@ Filled(f, S \ {e})

\* lines 31-43: luminance times the mask value
maskedLuminance(ph, fm, w, h) ==
    Filled([i \in Pixels(w, h) |->
               (299 * ph[i][1] + 587 * ph[i][2] + 114 * ph[i][3]) * fm[i]],
           Pixels(w, h))

RECURSIVE SumOver(_, _)
SumOver(f, S) ==
    IF S = {} THEN 0
    ELSE LET e == CHOOSE e \in S : TRUE IN f[e] + SumOver(f, S \ {e})

\* blurLuminance: the horizontal pass divides the sum over the in-bounds
\* columns of the window by their number, the vertical pass does so over
\* the in-bounds rows; the number of columns is the same along a column,
\* so the result is the sum over the in-bounds window divided by the
\* product of the two counts
blurLuminance(lum, w, h, radius) ==
    Filled([i \in Pixels(w, h) |->
               LET x  == i % w
                   y  == i \div w
                   xs == {nx \in (x - radius) .. (x + radius) : nx >= 0 /\ nx < w}
                   ys == {ny \in (y - radius) .. (y + radius) : ny >= 0 /\ ny < h}
               IN  [num |-> SumOver(lum, {ny * w + nx : nx \in xs, ny \in ys}),
                    den |-> Cardinality(xs) * Cardinality(ys)]],
           Pixels(w, h))

RECURSIVE Gcd(_, _)
Gcd(a, b) == IF b = 0 THEN a ELSE Gcd(b, a % b)

\* normalizeLuminance: t = (luminance[i] - min) / range per pixel, or 1.0
\* everywhere (t = 1/2) when range is 0
\* Math.min(...luminance) and Math.max(...luminance)
MathMin(bl, w, h) ==
    bl[CHOOSE i \in Pixels(w, h) :
          \A j \in Pixels(w, h) : bl[i].num * bl[j].den <= bl[j].num * bl[i].den]

MathMax(bl, w, h) ==
    bl[CHOOSE i \in Pixels(w, h) :
          \A j \in Pixels(w, h) : bl[i].num * bl[j].den >= bl[j].num * bl[i].den]

\* the body of normalizeLuminance, min and max given; range is
\* hi.num/hi.den - lo.num/lo.den times the two denominators
normalizeWith(bl, lo, hi, w, h) ==
    IF hi.num * lo.den - lo.num * hi.den = 0
    THEN [i \in Pixels(w, h) |-> [p |-> 1, q |-> 2]]
    ELSE Filled([i \in Pixels(w, h) |->
                    LET p == (bl[i].num * lo.den - lo.num * bl[i].den) * hi.den
                        q == bl[i].den * (hi.num * lo.den - lo.num * hi.den)
                        g == Gcd(q, p)
                    IN  [p |-> p \div g, q |-> q \div g]],
                Pixels(w, h))

normalizeLuminance(bl, w, h) ==
    CHOOSE n \in {normalizeWith(bl, lo, hi, w, h) :
                     lo \in {MathMin(bl, w, h)}, hi \in {MathMax(bl, w, h)}} : TRUE

\* Math.round(normalizedLum[i] * 255) stored in the Uint8ClampedArray of
\* the ImageData: 204 + 102*t rounded to the nearest integer (a value
\* exactly half way goes the way the float rounding falls), then clamped
\* to 255
byteOutcomes(t) ==
    LET r     == (409 * t.q + 204 * t.p) \div (2 * t.q)
        clamp(v) == IF v > 255 THEN 255 ELSE v
    IN  IF (409 * t.q + 204 * t.p) % (2 * t.q) = 0
        THEN {clamp(r - 1), clamp(r)}
        ELSE {clamp(r)}

\* one-row photos: a colour up to column k, another from there on
PhotoColours == {<<0, 0, 0>>, <<1, 1, 1>>, <<1, 0, 0>>}

Photos(w) ==
    {[i \in Pixels(w, 1) |-> IF i < k THEN c1 ELSE c2] :
        k \in 0 .. w, c1 \in PhotoColours, c2 \in PhotoColours}

\* floor masks: all floor, or the right half only
IllumMasks(w) ==
    {[i \in Pixels(w, 1) |-> 1], [i \in Pixels(w, 1) |-> IF i >= w \div 2 THEN 1 ELSE 0]}

InitIllum ==
    /\ gw \in (MaxIllumW - 1) .. MaxIllumW
    /\ gh = 1
    /\ photo \in Photos(gw)
    /\ illumMask \in IllumMasks(gw)
    /\ illumOut = <<>>
    /\ IdleMorph /\ IdleSeg /\ IdleOcc /\ IdleFrag /\ IdleHom /\ IdleApp

RunCreateIlluminationMap ==
    /\ illumOut = <<>>
    /\ \E luminance \in {maskedLuminance(photo, illumMask, gw, gh)} :
       \E blurredLum \in {blurLuminance(luminance, gw, gh, BlurRadius)} :
       \E normalizedLum \in {normalizeLuminance(blurredLum, gw, gh)} :
       \E down \in SUBSET {i \in Pixels(gw, gh) :
                              Cardinality(byteOutcomes(normalizedLum[i])) = 2} :
          illumOut' =
              [i \in Pixels(gw, gh) |->
                  LET o == byteOutcomes(normalizedLum[i])
                  IN  IF i \in down
                      THEN CHOOSE v \in o : \A u \in o : v <= u
                      ELSE CHOOSE v \in o : \A u \in o : v >= u]
    /\ UNCHANGED <<gw, gh, photo, illumMask, morphVars, segVars, occVars, fragVars,
                   homVars, appVars>>

NextIllum == RunCreateIlluminationMap

SpecIllum == InitIllum /\ [][NextIllum]_vars

\* the blurred luminance of the photo, and its extreme pixels
Blurred == blurLuminance(maskedLuminance(photo, illumMask, gw, gh), gw, gh, BlurRadius)

BrightestPixels ==
    UNION {{i \in Pixels(gw, gh) :
               \A j \in Pixels(gw, gh) : bl[i].num * bl[j].den >= bl[j].num * bl[i].den} :
           bl \in {Blurred}}

DarkestPixels ==
    UNION {{i \in Pixels(gw, gh) :
               \A j \in Pixels(gw, gh) : bl[i].num * bl[j].den <= bl[j].num * bl[i].den} :
           bl \in {Blurred}}

(* C16: for a non-degenerate input (blurred luminance not constant) the    *)
(* illumination map, decoded from its 8-bit channel as value/255, lies in  *)
(* [0.8, 1.2], equals 1.2 at the pixels of maximal blurred luminance and   *)
(* 0.8 at those of minimal blurred luminance (255*0.8 = 204, 255*1.2 =     *)
(* 306).                                                                   *)
C16_IlluminationRange ==
    (illumOut # <<>> /\ BrightestPixels # DarkestPixels) =>
        /\ \A i \in Pixels(gw, gh) : 204 <= illumOut[i] /\ illumOut[i] <= 306
        /\ \A i \in BrightestPixels : illumOut[i] = 306
        /\ \A i \in DarkestPixels : illumOut[i] = 204

----------------------------------------------------------------------------
(* A failed decode in buildMasksFromSegmentation.                          *)

\* the segments whose mask buildMasksFromSegmentation decodes, and those
\* of them whose decode fails
DecodedSegs ==
    {k \in 1 .. Len(segs) :
        \E label \in floorLabels \cup furnitureLabels : includes(segs[k].label, label)}

FailingSegs == {k \in DecodedSegs : DOMAIN segs[k].mask = {}}

\* the list without the segments whose decode fails
RemainingSegs ==
    LET keep(segment) ==
            ~ /\ \E label \in floorLabels \cup furnitureLabels :
                     includes(segment.label, label)
              /\ DOMAIN segment.mask = {}
    IN  SelectSeq(segs, keep)

(* C20: if decoding one segment's mask fails, buildMasksFromSegmentation   *)
(* skips only that segment and still completes, returning the masks built  *)
(* from all remaining segments of the list (those before and after the     *)
(* failing one).                                                           *)
C20_DecodeFailureSkipped ==
    (segOut.fn = "buildMasksFromSegmentation" /\ FailingSegs # {}) =>
        /\ ~segOut.rejected
        /\ segOut = buildMasksFromSegmentation(RemainingSegs, gw, gh)

----------------------------------------------------------------------------
(* src/src/lib/roomReconstruction.ts: findConnectedComponents, floodFill.  *)
(* A component is kept as the set of its pixel indices; the order in which *)
(* floodFill pushes them onto the list is left out.                        *)

\* largest number of pixels of a mask handed to findConnectedComponents
MaxRoomPixels == 6

\* the indices floodFill pushes for idx: top, bottom, left and right,
\* kept when 0 <= neighbor < mask.length
roomNeighbors(idx, width, len) ==
    LET x == idx % width
        y == idx \div width
    IN  {n \in {(y - 1) * width + x, (y + 1) * width + x,
                y * width + (x - 1), y * width + (x + 1)} : n >= 0 /\ n < len}

\* the pixels floodFill collects from the stack: those reached from the
\* members of comp over pushed neighbours that are set and not visited
RECURSIVE roomFloodFill(_, _, _, _, _)
roomFloodFill(m, visited, comp, width, height) ==
    LET len  == width * height
        more == {n \in UNION {roomNeighbors(idx, width, len) : idx \in comp} :
                    n \notin visited /\ n \notin comp /\ m[n] = 1}
    IN  IF more = {} THEN comp
        ELSE roomFloodFill(m, visited, comp \cup more, width, height)

\* the scan of findConnectedComponents from index idx on
RECURSIVE roomScan(_, _, _, _, _)
roomScan(m, visited, idx, width, height) ==
    IF idx >= width * height
    THEN <<>>
    ELSE IF m[idx] = 1 /\ idx \notin visited
         THEN LET component == roomFloodFill(m, visited, {idx}, width, height)
              IN  <<component>> \o
                  roomScan(m, visited \cup component, idx + 1, width, height)
         ELSE roomScan(m, visited, idx + 1, width, height)

findConnectedComponents(m, width, height) ==
    [fn |-> "findConnectedComponents", components |-> roomScan(m, {}, 0, width, height)]

RoomDims ==
    {d \in (1 .. MaxRoomPixels) \X (1 .. MaxRoomPixels) : d[1] * d[2] <= MaxRoomPixels}

InitRoom ==
    /\ \E d \in RoomDims : gw = d[1] /\ gh = d[2]
    /\ roomMask \in [Pixels(gw, gh) -> {0, 1}]
    /\ roomComponents = [fn |-> None]
    /\ IdleMorph /\ IdleSeg /\ IdleOcc /\ IdleFrag /\ IdleHom /\ IdleIllum /\ IdleStore
    /\ IdleCanvas /\ IdleManager

RunFindConnectedComponents ==
    /\ roomComponents.fn = None
    /\ roomComponents' = findConnectedComponents(roomMask, gw, gh)
    /\ UNCHANGED <<gw, gh, roomMask, morphVars, segVars, occVars, fragVars, homVars,
                   illumVars, store, uploader, calls, lastImport, canvas, mesh,
                   rendered, manager>>

NextRoom == RunFindConnectedComponents

SpecRoom == InitRoom /\ [][NextRoom]_vars

\* p and q are horizontally or vertically adjacent pixels of the grid
Adjacent4(p, q) ==
    \/ p \div gw = q \div gw /\ (p - q = 1 \/ q - p = 1)
    \/ p % gw = q % gw /\ (p - q = gw \/ q - p = gw)

\* the set pixels joined to those of S by paths of adjacent set pixels
RECURSIVE Joined(_)
Joined(S) ==
    LET more == {q \in Pixels(gw, gh) :
                    /\ roomMask[q] = 1 /\ q \notin S
                    /\ \E p \in S : Adjacent4(p, q)}
    IN  IF more = {} THEN S ELSE Joined(S \cup more)

(* C25: findConnectedComponents returns true 4-connected components: two   *)
(* set pixels are in the same component only if they are joined by a path  *)
(* of horizontally or vertically adjacent set pixels inside the grid; the  *)
(* last pixel of a row and the first pixel of the next row are never       *)
(* treated as neighbours.                                                  *)
C25_FourConnected ==
    roomComponents.fn # None =>
        \A k \in 1 .. Len(roomComponents.components) :
            \A p \in roomComponents.components[k] :
                roomComponents.components[k] \subseteq Joined({p})

----------------------------------------------------------------------------
(* src/src/components/PhotoUploader.tsx: the arrays handleFileSelect       *)
(* derives from the uploaded photo.                                        *)
(*                                                                         *)
(* In this part a typed array is a sequence (index i of the source is      *)
(* position i + 1), a nullable field is [present |-> FALSE] for null and   *)
(* [present |-> TRUE, data |-> ...] otherwise, and a photo is              *)
(* [loads, w, h, px]: whether the file loads as an image, its size and     *)
(* its pixels, each pixel a grey r = g = b.  A number that is not an       *)
(* integer is the fraction [num, den].                                     *)

Null == [present |-> FALSE]

Some(data) == [present |-> TRUE, data |-> data]

\* Math.abs
MathAbs(a) == IF a < 0 THEN -a ELSE a

\* Math.round(num/den) for num >= 0, den > 0.  At an exact half the
\* floating-point product may lie on either side of it.
mathRound(num, den) ==
    LET q == (2 * num + den) \div (2 * den)
    IN  IF (2 * num + den) % (2 * den) = 0 /\ q > 0 THEN {q - 1, q} ELSE {q}

\* data[(y * width + x) * 4], the red channel, which for a grey pixel is
\* also the brightness (r + g + b) / 3
brightnessAt(file, x, y) == file.px[y * file.w + x + 1]

\* floorMask[idx]: the values Math.round(Math.min(255, Math.max(0,
\* floorProbability * 255))) can take, floorProbability being
\* Math.max(0, 1 - normalizedY * 1.2) * (brightness < 180 ? 1.3 : 0.7)
floorMaskValues(file, x, y) ==
    LET position == Max(0, 10 * file.h - 12 * y)
        factor   == IF brightnessAt(file, x, y) < 180 THEN 13 ELSE 7
        num      == position * factor * 255
        den      == 100 * file.h
    IN  IF num >= 255 * den THEN {255} ELSE mathRound(num, den)

\* edgeStrength: zero on the border of the image
edgeStrength(file, x, y) ==
    IF x > 0 /\ x < file.w - 1 /\ y > 0 /\ y < file.h - 1
    THEN MathAbs(brightnessAt(file, x + 1, y) - brightnessAt(file, x - 1, y))
         + MathAbs(brightnessAt(file, x, y + 1) - brightnessAt(file, x, y - 1))
    ELSE 0

\* furnitureStrength, in 128ths:
\* Math.min(255, edgeStrength * 2 + brightnessVariation * 100)
furnitureStrength(file, x, y) ==
    Min(255 * 128,
        edgeStrength(file, x, y) * 256
        + MathAbs(brightnessAt(file, x, y) - 128) * 100)

\* furnitureMask[idx] = Math.round(furnitureStrength)
furnitureMaskValues(file, x, y) == mathRound(furnitureStrength(file, x, y), 128)

\* occlusionMask[idx] = Math.round(Math.min(255, furnitureStrength * 1.5))
occlusionMaskValues(file, x, y) ==
    mathRound(Min(255 * 256, furnitureStrength(file, x, y) * 3), 256)

\* depthMap[idx] = normalizedY * 0.9 + (brightness / 255) * 0.1
depthAt(file, x, y) ==
    [num |-> y * 9 * 255 + brightnessAt(file, x, y) * file.h, den |-> 2550 * file.h]

\* the sequences of length k whose i-th entry is one of valueSets[i]
RECURSIVE gridsUpTo(_, _)
gridsUpTo(valueSets, k) ==
    IF k = 0 THEN {<<>>}
    ELSE {Append(g, v) : g \in gridsUpTo(valueSets, k - 1), v \in valueSets[k]}

\* what handleFileSelect hands to the setters of the store for a photo
derivedFrom(file) ==
    LET n    == file.w * file.h
        x(i) == (i - 1) % file.w
        y(i) == (i - 1) \div file.w
    IN  [floorMask : gridsUpTo([i \in 1 .. n |-> floorMaskValues(file, x(i), y(i))], n),
         furnitureMask :
             gridsUpTo([i \in 1 .. n |-> furnitureMaskValues(file, x(i), y(i))], n),
         depthMap : {[i \in 1 .. n |-> depthAt(file, x(i), y(i))]},
         occlusionMask :
             gridsUpTo([i \in 1 .. n |-> occlusionMaskValues(file, x(i), y(i))], n),
         floorPlane : {[normal |-> <<0, 1, 0>>, distance |-> 0,
                        points |-> <<<<0, 0, 0>>, <<file.w, 0, 0>>, <<0, file.h, 0>>,
                                     <<file.w, file.h, 0>>>>]},
         homography : {<<1, 0, 0, 0, 1, 0, 0, 0, 1>>}]

----------------------------------------------------------------------------
(* src/src/components/VisualizerCanvas.tsx: the scene store (useSceneStore)*)
(* and the run-length encoding of its export.                              *)

initialState ==
    [image |-> Null, imageWidth |-> 0, imageHeight |-> 0,
     floorMask |-> Null, homography |-> Null, furnitureMask |-> Null,
     depthMap |-> Null, occlusionMask |-> Null, floorPlane |-> Null,
     isProcessing |-> FALSE, processingStep |-> "",
     rotation |-> 0, scale |-> 10, pattern |-> "random", shuffleSeed |-> 0,
     plankSize |-> [length |-> 10, width |-> 2], textureId |-> "oak-01",
     occlusionThreshold |-> 1, edgeRefinement |-> TRUE, shadowPreservation |-> TRUE]

\* mask[0] of an empty array: undefined, which JSON.stringify writes as
\* null and a Uint8Array stores as 0
Undefined == -1

\* the loop of runLengthEncode from index i (1-based) on, the current run
\* being count times currentValue
RECURSIVE encodeFrom(_, _, _, _)
encodeFrom(m, i, currentValue, count) ==
    IF i > Len(m)
    THEN <<<<currentValue, count>>>>
    ELSE IF m[i] = currentValue
         THEN encodeFrom(m, i + 1, currentValue, count + 1)
         ELSE <<<<currentValue, count>>>> \o encodeFrom(m, i + 1, m[i], 1)

\* the encoder that leaves out the push after the loop
RECURSIVE encodeFromNoLastRun(_, _, _, _)
encodeFromNoLastRun(m, i, currentValue, count) ==
    IF i > Len(m)
    THEN <<>>
    ELSE IF m[i] = currentValue
         THEN encodeFromNoLastRun(m, i + 1, currentValue, count + 1)
         ELSE <<<<currentValue, count>>>> \o encodeFromNoLastRun(m, i + 1, m[i], 1)

runLengthEncodeNoLastRun(m) ==
    encodeFromNoLastRun(m, 2, IF Len(m) = 0 THEN Undefined ELSE m[1], 1)

runLengthEncode(m) ==
    encodeFrom(m, 2, IF Len(m) = 0 THEN Undefined ELSE m[1], 1)

\* the values of the runs of rle, written out one after the other
RECURSIVE runsWritten(_)
runsWritten(rle) ==
    IF rle = <<>> THEN <<>>
    ELSE [i \in 1 .. rle[1][2] |-> rle[1][1]] \o runsWritten(Tail(rle))

\* what a Uint8Array keeps of a value assigned to an element
toUint8(value) == IF value = Undefined THEN 0 ELSE value % 256

\* runLengthDecode: the written values fill a zeroed array of width*height
\* elements from index 0; a value for an index beyond the array is dropped
runLengthDecode(rle, width, height) ==
    LET written == runsWritten(rle)
    IN  [i \in 1 .. width * height |->
            IF i <= Len(written) THEN toUint8(written[i]) ELSE 0]

\* a number as JSON.stringify and JSON.parse carry it: NaN and the
\* infinities (den = 0) are written as null
jsonNumber(v) == IF v.den = 0 THEN Null ELSE Some(v)

\* new Float32Array([...]) of a parsed element: null becomes 0
toFloat32(j) == IF j.present THEN j.data ELSE [num |-> 0, den |-> 1]

\* JSON text that does not parse
MalformedJson == [valid |-> FALSE]

\* exportScene: the JSON text, as the object it denotes
exportScene(state) ==
    LET rleOf(field) == IF field.present THEN Some(runLengthEncode(field.data))
                        ELSE Null
    IN  [valid |-> TRUE,
         data |->
           [image |-> state.image,
            imageWidth |-> state.imageWidth,
            imageHeight |-> state.imageHeight,
            floorMaskRLE |-> rleOf(state.floorMask),
            furnitureMaskRLE |-> rleOf(state.furnitureMask),
            depthMap |-> IF state.depthMap.present
                         THEN Some([i \in 1 .. Len(state.depthMap.data) |->
                                       jsonNumber(state.depthMap.data[i])])
                         ELSE Null,
            occlusionMaskRLE |-> rleOf(state.occlusionMask),
            floorPlane |-> state.floorPlane,
            homography |-> state.homography,
            rotation |-> state.rotation,
            scale |-> state.scale,
            pattern |-> state.pattern,
            shuffleSeed |-> state.shuffleSeed,
            plankSize |-> state.plankSize,
            textureId |-> state.textureId,
            occlusionThreshold |-> state.occlusionThreshold,
            edgeRefinement |-> state.edgeRefinement,
            shadowPreservation |-> state.shadowPreservation]]

\* a catch block that answers the failure by resetting the scene
importCatchResetting(state) ==
    [state |-> initialState, threw |-> FALSE, reported |-> TRUE]

\* the catch block of importScene: console.error, nothing is set and
\* nothing is thrown on
importCatch(state) ==
    [state |-> state, threw |-> FALSE, reported |-> TRUE]

\* importScene: the state it leaves, whether it threw, and whether it
\* reported a failure (console.error in the catch)
importScene(state, json) ==
    IF ~json.valid
    THEN importCatch(state)
    ELSE LET sceneData == json.data
             decoded(rle) ==
                 IF rle.present
                 THEN Some(runLengthDecode(rle.data, sceneData.imageWidth,
                                           sceneData.imageHeight))
                 ELSE Null
         IN  [state |->
                [state EXCEPT
                   !.image = sceneData.image,
                   !.imageWidth = sceneData.imageWidth,
                   !.imageHeight = sceneData.imageHeight,
                   !.floorMask = decoded(sceneData.floorMaskRLE),
                   !.furnitureMask = decoded(sceneData.furnitureMaskRLE),
                   !.depthMap =
                       IF sceneData.depthMap.present
                       THEN Some([i \in 1 .. Len(sceneData.depthMap.data) |->
                                     toFloat32(sceneData.depthMap.data[i])])
                       ELSE Null,
                   !.occlusionMask = decoded(sceneData.occlusionMaskRLE),
                   !.floorPlane = sceneData.floorPlane,
                   !.homography = sceneData.homography,
                   !.rotation = sceneData.rotation,
                   !.scale = sceneData.scale,
                   !.pattern = sceneData.pattern,
                   !.shuffleSeed = sceneData.shuffleSeed,
                   !.plankSize = sceneData.plankSize,
                   !.textureId = sceneData.textureId,
                   !.occlusionThreshold = sceneData.occlusionThreshold,
                   !.edgeRefinement = sceneData.edgeRefinement,
                   !.shadowPreservation = sceneData.shadowPreservation],
              threw |-> FALSE, reported |-> FALSE]

----------------------------------------------------------------------------
(* The scene store driven by PhotoUploader, the controls and the store's   *)
(* own export and import.  After the image has loaded handleFileSelect     *)
(* runs to its end without yielding; every call of a setter in it is a     *)
(* state of the store its subscribers see, so each is a step here, and no  *)
(* other handler runs between them.                                        *)

\* how many uploads are started
MaxUploads == 2
\* how many times a control is changed
MaxControlChanges == 1
\* how many times importScene is called
MaxImports == 1

\* the files offered to the uploader: three photos and a file that does
\* not load as an image
FileSet ==
    {[loads |-> TRUE, w |-> 1, h |-> 2, px |-> <<0, 200>>],
     [loads |-> TRUE, w |-> 2, h |-> 1, px |-> <<200, 200>>],
     [loads |-> TRUE, w |-> 3, h |-> 3, px |-> <<0, 200, 0, 0, 0, 200, 0, 0, 0>>],
     [loads |-> FALSE, w |-> 0, h |-> 0, px |-> <<>>]}

\* the values the controls panel gives to a field of the store (scale,
\* plank size and threshold in tenths)
ControlValues ==
    [rotation |-> {0, 90}, scale |-> {10, 20},
     pattern |-> {"random", "brick", "herringbone", "basket"},
     shuffleSeed |-> {0, 7},
     plankSize |-> {[length |-> 10, width |-> 2], [length |-> 15, width |-> 2]},
     textureId |-> {"oak-01", "walnut-01"},
     occlusionThreshold |-> {1, 2},
     edgeRefinement |-> BOOLEAN, shadowPreservation |-> BOOLEAN]

NoImport == [source |-> None]

InitStore ==
    /\ store = initialState
    /\ uploader = [pc |-> "idle", file |-> Null, derived |-> Null, outcome |-> None]
    /\ calls = [uploads |-> 0, controls |-> 0, imports |-> 0]
    /\ lastImport = NoImport
    /\ gw = 1 /\ gh = 1
    /\ IdleMorph /\ IdleSeg /\ IdleOcc /\ IdleFrag /\ IdleHom /\ IdleIllum /\ IdleRoom
    /\ IdleCanvas /\ IdleManager

StoreFrame ==
    UNCHANGED <<gw, gh, morphVars, segVars, occVars, fragVars, homVars, illumVars,
                roomMask, roomComponents, canvas, mesh, rendered, manager>>

\* no handler is in the middle of its synchronous part
Quiescent == uploader.pc \in {"idle", "loading"}

\* handleFileSelect up to the await of the image load
HandleFileSelect ==
    \E file \in FileSet :
        /\ uploader.pc = "idle"
        /\ calls.uploads < MaxUploads
        /\ uploader' = [pc |-> "loading", file |-> Some(file), derived |-> Null,
                        outcome |-> None]
        /\ calls' = [calls EXCEPT !.uploads = @ + 1]
        /\ lastImport' = NoImport
        /\ UNCHANGED store
        /\ StoreFrame

\* img.onerror: the promise rejects and the catch block runs
ImageFailsToLoad ==
    /\ uploader.pc = "loading"
    /\ ~uploader.file.data.loads
    /\ store' = [store EXCEPT !.isProcessing = FALSE, !.processingStep = "Error"]
    /\ uploader' = [uploader EXCEPT !.pc = "idle", !.outcome = "failed"]
    /\ lastImport' = NoImport
    /\ UNCHANGED calls
    /\ StoreFrame

\* img.onload: setImage(imageUrl, width, height)
ImageLoaded ==
    /\ uploader.pc = "loading"
    /\ uploader.file.data.loads
    /\ store' = [store EXCEPT !.image = uploader.file,
                              !.imageWidth = uploader.file.data.w,
                              !.imageHeight = uploader.file.data.h]
    /\ uploader' = [uploader EXCEPT !.pc = "analyse"]
    /\ lastImport' = NoImport
    /\ UNCHANGED calls
    /\ StoreFrame

\* the allocation of the arrays or the canvas calls throw (getContext
\* returns null, the arrays or the canvas are too large): the catch block
AnalysisThrows ==
    /\ uploader.pc = "analyse"
    /\ store' = [store EXCEPT !.isProcessing = FALSE, !.processingStep = "Error"]
    /\ uploader' = [uploader EXCEPT !.pc = "idle", !.outcome = "failed"]
    /\ UNCHANGED <<calls, lastImport>>
    /\ StoreFrame

\* the pixel loop, then setFloorMask(floorMask)
SetFloorMask ==
    /\ uploader.pc = "analyse"
    /\ \E derived \in derivedFrom(uploader.file.data) :
          /\ uploader' = [uploader EXCEPT !.pc = "setFurnitureMask",
                                          !.derived = Some(derived)]
          /\ store' = [store EXCEPT !.floorMask = Some(derived.floorMask)]
    /\ UNCHANGED <<calls, lastImport>>
    /\ StoreFrame

SetFurnitureMask ==
    /\ uploader.pc = "setFurnitureMask"
    /\ store' = [store EXCEPT !.furnitureMask = Some(uploader.derived.data.furnitureMask)]
    /\ uploader' = [uploader EXCEPT !.pc = "setDepthMap"]
    /\ UNCHANGED <<calls, lastImport>>
    /\ StoreFrame

SetDepthMap ==
    /\ uploader.pc = "setDepthMap"
    /\ store' = [store EXCEPT !.depthMap = Some(uploader.derived.data.depthMap)]
    /\ uploader' = [uploader EXCEPT !.pc = "setOcclusionMask"]
    /\ UNCHANGED <<calls, lastImport>>
    /\ StoreFrame

SetOcclusionMask ==
    /\ uploader.pc = "setOcclusionMask"
    /\ store' = [store EXCEPT !.occlusionMask = Some(uploader.derived.data.occlusionMask)]
    /\ uploader' = [uploader EXCEPT !.pc = "setFloorPlane"]
    /\ UNCHANGED <<calls, lastImport>>
    /\ StoreFrame

SetFloorPlane ==
    /\ uploader.pc = "setFloorPlane"
    /\ store' = [store EXCEPT !.floorPlane = Some(uploader.derived.data.floorPlane)]
    /\ uploader' = [uploader EXCEPT !.pc = "setHomography"]
    /\ UNCHANGED <<calls, lastImport>>
    /\ StoreFrame

SetHomography ==
    /\ uploader.pc = "setHomography"
    /\ store' = [store EXCEPT !.homography = Some(uploader.derived.data.homography)]
    /\ uploader' = [uploader EXCEPT !.pc = "setProcessingState"]
    /\ UNCHANGED <<calls, lastImport>>
    /\ StoreFrame

\* setProcessingState(false, '3D Floor Ready'), the end of the handler
SetProcessingState ==
    /\ uploader.pc = "setProcessingState"
    /\ store' = [store EXCEPT !.isProcessing = FALSE,
                              !.processingStep = "3D Floor Ready"]
    /\ uploader' = [uploader EXCEPT !.pc = "idle", !.outcome = "done"]
    /\ UNCHANGED <<calls, lastImport>>
    /\ StoreFrame

\* a setter of a control field called by the controls panel
SetControl ==
    \E field \in DOMAIN ControlValues : \E value \in ControlValues[field] :
        /\ Quiescent
        /\ calls.controls < MaxControlChanges
        /\ store[field] # value
        /\ store' = [store EXCEPT ![field] = value]
        /\ calls' = [calls EXCEPT !.controls = @ + 1]
        /\ lastImport' = NoImport
        /\ UNCHANGED uploader
        /\ StoreFrame

ResetScene ==
    /\ Quiescent
    /\ store # initialState
    /\ store' = initialState
    /\ lastImport' = NoImport
    /\ UNCHANGED <<uploader, calls>>
    /\ StoreFrame

\* exports of state altered so that the runs of a mask do not add up to
\* imageWidth * imageHeight: the width enlarged, a run added to the floor
\* mask
MismatchedJson(state) ==
    IF ~state.floorMask.present
    THEN {}
    ELSE LET json == exportScene(state)
         IN  {[json EXCEPT !.data.imageWidth = @ + 1],
              [json EXCEPT !.data.floorMaskRLE.data = Append(@, <<255, 1>>)]}

ImportScene ==
    /\ Quiescent
    /\ calls.imports < MaxImports
    /\ \E input \in ({[source |-> "export", json |-> exportScene(store)],
                      [source |-> "malformed", json |-> MalformedJson]}
                     \cup {[source |-> "mismatched", json |-> j] :
                              j \in MismatchedJson(store)}) :
          \E result \in {importScene(store, input.json)} :
              /\ store' = result.state
              /\ lastImport' = [source |-> input.source, before |-> store,
                                threw |-> result.threw, reported |-> result.reported]
    /\ calls' = [calls EXCEPT !.imports = @ + 1]
    /\ UNCHANGED uploader
    /\ StoreFrame

NextStore ==
    \/ HandleFileSelect \/ ImageFailsToLoad \/ ImageLoaded \/ AnalysisThrows
    \/ SetFloorMask \/ SetFurnitureMask \/ SetDepthMap \/ SetOcclusionMask
    \/ SetFloorPlane \/ SetHomography \/ SetProcessingState
    \/ SetControl \/ ResetScene \/ ImportScene

SpecStore == InitStore /\ [][NextStore]_vars

\* the mask fields of the store and the fields derived from the photo
MaskFields == {"floorMask", "furnitureMask", "occlusionMask"}

DerivedFields == MaskFields \cup {"depthMap", "floorPlane", "homography"}

\* every mask held in state has imageWidth * imageHeight elements
MasksFit(state) ==
    \A field \in MaskFields :
        state[field].present =>
            Len(state[field].data) = state.imageWidth * state.imageHeight

(* C21: every core operation that receives a grid whose length differs     *)
(* from width*height fails with a dimension-mismatch error and never       *)
(* silently truncates, pads with zeros or reads/writes out of bounds: a    *)
(* scene whose mask runs do not add up to imageWidth*imageHeight is        *)
(* refused by importScene with a reported failure.                         *)
C21_DimensionMismatchFails ==
    lastImport.source = "mismatched" => lastImport.reported

(* C22: in every store state reached during or after a second photo        *)
(* upload (including an upload that fails part-way), the image and all     *)
(* derived fields (floorMask, furnitureMask, depthMap, occlusionMask,      *)
(* floorPlane, homography) belong to the same photo.                       *)
C22_SamePhoto ==
    (calls.uploads >= 2 /\ calls.imports = 0 /\ store.image.present) =>
        \A field \in DerivedFields :
            store[field].present =>
                \E derived \in derivedFrom(store.image.data) :
                    store[field].data = derived[field]

(* C23: after any upload, every mask held in the scene state (floorMask,   *)
(* furnitureMask, occlusionMask) is binary, containing only the values 0   *)
(* and 255, and has length imageWidth*imageHeight.                         *)
C23_MasksBinary ==
    (uploader.pc = "idle" /\ uploader.outcome = "done" /\ calls.imports = 0) =>
        /\ MasksFit(store)
        /\ \A field \in MaskFields :
              store[field].present =>
                  \A i \in 1 .. Len(store[field].data) :
                      store[field].data[i] \in {0, 255}

(* C26: scene export/import round-trips: for every store state whose masks *)
(* have length imageWidth*imageHeight, importScene(exportScene()) leaves   *)
(* image, dimensions, all three masks, depthMap, floorPlane, homography    *)
(* and every control field equal to their values at export time.           *)
C26_ExportImportRoundTrip ==
    (lastImport.source = "export" /\ MasksFit(lastImport.before)) =>
        store = lastImport.before

\* a round trip of a scene whose floor mask needs several runs and whose
\* controls are not the initial ones
C26_Witness ==
    /\ lastImport.source = "export"
    /\ MasksFit(lastImport.before)
    /\ lastImport.before.floorMask.present
    /\ Len(runLengthEncode(lastImport.before.floorMask.data)) >= 2
    /\ lastImport.before.depthMap.present
    /\ lastImport.before.pattern # initialState.pattern
    /\ store = lastImport.before

(* C27: importScene called with a string that is not valid JSON reports    *)
(* the failure without throwing and leaves every field of the scene store  *)
(* unchanged.                                                              *)
C27_InvalidJsonLeavesStore ==
    lastImport.source = "malformed" =>
        /\ lastImport.reported
        /\ ~lastImport.threw
        /\ store = lastImport.before

\* invalid JSON handed to a store that holds an uploaded scene
C27_Witness ==
    /\ lastImport.source = "malformed"
    /\ lastImport.before.image.present
    /\ lastImport.before.floorMask.present
    /\ lastImport.reported
    /\ store = lastImport.before

----------------------------------------------------------------------------
(* src/src/components/VisualizerCanvas.tsx: the component.  Its two        *)
(* effects, initThreeJS, the resize handler, handlePhotoUpload and         *)
(* createFloorMesh, with the controls of the store.                        *)

getPatternIndex(pattern) ==
    CASE pattern = "random"      -> 0
      [] pattern = "brick"       -> 1
      [] pattern = "herringbone" -> 2
      [] pattern = "basket"      -> 3
      [] OTHER                   -> 0

\* the four values the component reads from the store when it renders
controlsOf(state) ==
    [rotation |-> state.rotation, scale |-> state.scale, pattern |-> state.pattern,
     shuffleSeed |-> state.shuffleSeed]

\* createBasicMesh: a new mesh has rotation.z = 0 and scale 1
createBasicMesh == [kind |-> "basic", uniforms |-> Null, rotationZ |-> 0, scale |-> 10]

\* createFloorMesh: the shader material takes uRotation, uScale, uPattern
\* and uSeed from the values of the render that created the handler
createFloorMesh(closure) ==
    [kind |-> "floor",
     uniforms |-> Some([uRotation |-> closure.rotation, uScale |-> closure.scale,
                        uPattern |-> getPatternIndex(closure.pattern),
                        uSeed |-> closure.shuffleSeed]),
     rotationZ |-> 0, scale |-> 10]

\* renderer.render(scene, camera) with m in the scene; controls records
\* the store's values at that moment
render(m, state) ==
    [kind |-> m.kind, uniforms |-> m.uniforms, rotationZ |-> m.rotationZ,
     scale |-> m.scale, controls |-> controlsOf(state)]

\* the body of the effect on [rotation, scale, shuffleSeed, pattern] when
\* floorMeshRef.current is set
controlsEffect(m, state) ==
    [m EXCEPT !.rotationZ = state.rotation, !.scale = state.scale]

InitCanvas ==
    /\ canvas = [phase |-> "unmounted", didInit |-> FALSE, rafPending |-> FALSE,
                 resizeListeners |-> 0, isProcessing |-> FALSE,
                 uploads |-> <<>>]
    /\ mesh = [kind |-> None]
    /\ rendered = [kind |-> None]
    /\ store = initialState
    /\ calls = [uploads |-> 0, controls |-> 0, imports |-> 0]
    /\ uploader = [pc |-> None]
    /\ lastImport = NoImport
    /\ gw = 1 /\ gh = 1
    /\ IdleMorph /\ IdleSeg /\ IdleOcc /\ IdleFrag /\ IdleHom /\ IdleIllum /\ IdleRoom
    /\ IdleManager

CanvasFrame ==
    UNCHANGED <<gw, gh, morphVars, segVars, occVars, fragVars, homVars, illumVars,
                roomMask, roomComponents, uploader, lastImport, manager>>

\* the component mounts and its effects run.  With a canvas that has a
\* size the first effect calls initThreeJS (and drops what it returns),
\* then the second effect finds the mesh; otherwise the first effect asks
\* for an animation frame and the second finds no mesh.
Mount ==
    \E hasSize \in BOOLEAN :
        /\ canvas.phase = "unmounted"
        /\ IF hasSize
           THEN /\ canvas' = [canvas EXCEPT !.phase = "mounted", !.didInit = TRUE,
                                            !.resizeListeners = @ + 1]
                /\ mesh' = controlsEffect(createBasicMesh, store)
                /\ rendered' = render(mesh', store)
           ELSE /\ canvas' = [canvas EXCEPT !.phase = "mounted", !.rafPending = TRUE]
                /\ UNCHANGED <<mesh, rendered>>
        /\ UNCHANGED <<store, calls>>
        /\ CanvasFrame

\* the animation frame: initThreeJS if the canvas has a size by now (a
\* canvas off the document has none)
AnimationFrame ==
    \E hasSize \in BOOLEAN :
        /\ canvas.rafPending
        /\ IF hasSize /\ canvas.phase = "mounted" /\ ~canvas.didInit
           THEN /\ canvas' = [canvas EXCEPT !.rafPending = FALSE, !.didInit = TRUE,
                                            !.resizeListeners = @ + 1]
                /\ mesh' = createBasicMesh
                /\ rendered' = render(mesh', store)
           ELSE /\ canvas' = [canvas EXCEPT !.rafPending = FALSE]
                /\ UNCHANGED <<mesh, rendered>>
        /\ UNCHANGED <<store, calls>>
        /\ CanvasFrame

\* the component unmounts: neither effect returned a cleanup function, so
\* nothing runs
Unmount ==
    /\ canvas.phase = "mounted"
    /\ canvas' = [canvas EXCEPT !.phase = "gone"]
    /\ UNCHANGED <<mesh, rendered, store, calls>>
    /\ CanvasFrame

\* a resize event of the window reaches the registered handleResize,
\* which returns at once when canvasRef.current is null
WindowResize ==
    /\ canvas.resizeListeners > 0
    /\ rendered' = IF canvas.phase = "mounted" THEN render(mesh, store) ELSE rendered
    /\ UNCHANGED <<canvas, mesh, store, calls>>
    /\ CanvasFrame

\* setRotation, setScale, setPattern or setShuffleSeed; the mounted
\* component renders again and its second effect runs
ControlChanged ==
    \E field \in {"rotation", "scale", "pattern", "shuffleSeed"} :
        \E value \in ControlValues[field] :
            /\ calls.controls < MaxControlChanges
            /\ store[field] # value
            /\ store' = [store EXCEPT ![field] = value]
            /\ calls' = [calls EXCEPT !.controls = @ + 1]
            /\ IF canvas.phase = "mounted" /\ mesh.kind # None
               THEN /\ mesh' = controlsEffect(mesh, store')
                    /\ rendered' = IF canvas.didInit THEN render(mesh', store')
                                   ELSE rendered
               ELSE UNCHANGED <<mesh, rendered>>
            /\ UNCHANGED canvas
            /\ CanvasFrame

\* handlePhotoUpload up to the await of the image load.  The button that
\* opens the file input is disabled while isProcessing; the input itself,
\* which has the focus order of the page, is not.
StartPhotoUpload ==
    \E loads \in BOOLEAN, via \in {"button", "input"} :
        /\ canvas.phase = "mounted"
        /\ via = "button" => ~canvas.isProcessing
        /\ calls.uploads < MaxUploads
        /\ canvas' = [canvas EXCEPT
                         !.isProcessing = TRUE,
                         !.uploads = Append(@, [pc |-> "loading", loads |-> loads,
                                                closure |-> controlsOf(store)])]
        /\ calls' = [calls EXCEPT !.uploads = @ + 1]
        /\ UNCHANGED <<mesh, rendered, store>>
        /\ CanvasFrame

\* what is left of the calls in flight when call i has returned
without(uploads, i) ==
    [k \in 1 .. Len(uploads) - 1 |-> IF k < i THEN uploads[k] ELSE uploads[k + 1]]

\* img.onload: the rest of handlePhotoUpload, finally included
PhotoLoaded ==
    \E i \in 1 .. Len(canvas.uploads) :
        /\ canvas.uploads[i].pc = "loading"
        /\ canvas.uploads[i].loads
        /\ mesh' = createFloorMesh(canvas.uploads[i].closure)
        /\ rendered' = IF canvas.didInit THEN render(mesh', store) ELSE rendered
        /\ canvas' = [canvas EXCEPT !.isProcessing = FALSE,
                                    !.uploads = without(@, i)]
        /\ UNCHANGED <<store, calls>>
        /\ CanvasFrame

\* the image fails to load: img.onerror is not set, the awaited promise is
\* never settled
PhotoLoadFails ==
    \E i \in 1 .. Len(canvas.uploads) :
        /\ canvas.uploads[i].pc = "loading"
        /\ ~canvas.uploads[i].loads
        /\ canvas' = [canvas EXCEPT !.uploads[i].pc = "pending"]
        /\ UNCHANGED <<mesh, rendered, store, calls>>
        /\ CanvasFrame

NextCanvas ==
    \/ Mount \/ AnimationFrame \/ Unmount \/ WindowResize \/ ControlChanged
    \/ StartPhotoUpload \/ PhotoLoaded \/ PhotoLoadFails

SpecCanvas == InitCanvas /\ [][NextCanvas]_vars

\* the browser delivers the load or the error of an image that is loading
SpecCanvasFair ==
    SpecCanvas /\ WF_vars(PhotoLoaded) /\ WF_vars(PhotoLoadFails)

(* C24: pattern parameters are passed per render: after any sequence of    *)
(* setRotation, setScale, setPattern and setShuffleSeed following a photo  *)
(* upload, the next render of the composited floor uses rotation, scale,   *)
(* pattern kind and seed equal to the current store values.                *)
C24_RenderUsesStore ==
    rendered.kind = "floor" =>
        /\ rendered.uniforms.data.uRotation = rendered.controls.rotation
        /\ rendered.uniforms.data.uScale = rendered.controls.scale
        /\ rendered.uniforms.data.uPattern = getPatternIndex(rendered.controls.pattern)
        /\ rendered.uniforms.data.uSeed = rendered.controls.shuffleSeed

(* C28: every photo upload started in VisualizerCanvas eventually sets     *)
(* isProcessing back to false, whether the selected file loads as an image *)
(* or fails to load, so the upload button never stays disabled forever.    *)
C28_ProcessingEnds ==
    [](canvas.isProcessing => <>(~canvas.isProcessing))

(* C30: when the component unmounts after initThreeJS has run, the window  *)
(* resize listener registered by initThreeJS is removed, so no resize      *)
(* handler of an unmounted component remains registered.                   *)
C30_ResizeListenerRemoved ==
    (canvas.phase = "gone" /\ canvas.didInit) => canvas.resizeListeners = 0

----------------------------------------------------------------------------
(* src/unnamed/part_005: FloorMaterialManager.  The constructor starts     *)
(* initializeMaterials, which awaits its four texture loads one after the  *)
(* other and registers the four materials after the last of them.          *)

MaxCreateCalls == 2

BuiltInIds == <<"oak-01", "walnut-01", "gray-lvp-01", "demo-laminate-01">>

TextureUrls ==
    <<"/textures/oak.jpg", "/textures/walnut.jpg", "/textures/gray-lvp.jpg",
      "/textures/demo-laminate.jpg">>

RequestedIds == Range(BuiltInIds) \cup {"maple-01"}

\* new Map()
EmptyMap == [id \in {} |-> Null]

\* Map.prototype.get
mapGet(map, key) == IF key \in DOMAIN map THEN Some(map[key]) ELSE Null

\* loadTextureWithFallback: the loaded texture, or the texture
\* generateFallbackTexture draws when the load is rejected
loadTextureWithFallback(url, ok) ==
    IF ok THEN [from |-> url] ELSE [from |-> "generated"]

\* the four materials.set calls that follow the fourth await
registerMaterials(textures) ==
    [id \in Range(BuiltInIds) |->
        [id |-> id,
         texture |-> textures[CHOOSE k \in 1..Len(BuiltInIds) : BuiltInIds[k] = id]]]

createFallbackMaterial == [kind |-> "MeshLambertMaterial", uTexture |-> Null]

createFloorMaterial(materials, materialId) ==
    LET baseMaterial == mapGet(materials, materialId)
    IN  IF ~baseMaterial.present
        THEN createFallbackMaterial
        ELSE [kind |-> "ShaderMaterial", uTexture |-> Some(baseMaterial.data.texture)]

\* the constructor has returned: initializeMaterials ran up to its first
\* await and the load of the first texture is in flight
InitManager ==
    /\ manager = [pc |-> "constructed", materials |-> EmptyMap, textures |-> <<>>,
                  creates |-> 0,
                  lastCreated |-> [materialId |-> None, material |-> Null]]
    /\ gw = 1 /\ gh = 1
    /\ IdleMorph /\ IdleSeg /\ IdleOcc /\ IdleFrag /\ IdleHom /\ IdleIllum
    /\ IdleRoom /\ IdleStore /\ IdleCanvas

ManagerFrame ==
    UNCHANGED <<gw, gh, morphVars, segVars, occVars, fragVars, homVars, illumVars,
                roomMask, roomComponents, store, uploader, calls, lastImport, canvas,
                mesh, rendered>>

\* initializeMaterials resumes when the load in flight settles: it starts
\* the next load, or after the fourth it registers the materials
resumeInitialize(m, ok) ==
    LET url == TextureUrls[Len(m.textures) + 1]
        textures == Append(m.textures, loadTextureWithFallback(url, ok))
    IN  [m EXCEPT !.textures = textures,
                  !.materials = IF Len(textures) = Len(TextureUrls)
                                THEN registerMaterials(textures) ELSE @]

\* the texture loader calls onLoad
TextureLoads ==
    /\ Len(manager.textures) < Len(TextureUrls)
    /\ manager' = resumeInitialize(manager, TRUE)
    /\ ManagerFrame

\* the texture loader calls onError
TextureFails ==
    /\ Len(manager.textures) < Len(TextureUrls)
    /\ manager' = resumeInitialize(manager, FALSE)
    /\ ManagerFrame

\* a caller asks for a floor material
CreateFloorMaterial ==
    \E materialId \in RequestedIds :
        /\ manager.creates < MaxCreateCalls
        /\ manager' = [manager EXCEPT
                          !.creates = @ + 1,
                          !.lastCreated =
                              [materialId |-> materialId,
                               material |-> Some(createFloorMaterial(manager.materials,
                                                                     materialId))]]
        /\ ManagerFrame

NextManager == TextureLoads \/ TextureFails \/ CreateFloorMaterial

SpecManager == InitManager /\ [][NextManager]_vars

(* C29: createFloorMaterial called for one of the four built-in material   *)
(* ids at any time after the constructor returns, under any interleaving   *)
(* with the asynchronous texture loads and whether they succeed or fail,   *)
(* finds the registered material and never returns the plain fallback.     *)
C29_BuiltInNeverFallback ==
    manager.lastCreated.materialId \in Range(BuiltInIds) =>
        manager.lastCreated.material.data # createFallbackMaterial
====
